---------------------------- MODULE Spec2Model ----------------------------
(***************************************************************************)
(* Inventory reservation and order lifecycle engine of the commerce        *)
(* backend: the inventory ledger (inventory.service.js), the order service *)
(* (order.service.js), the payment service (payment.service.js), the cart  *)
(* reads used by checkout (cart.service.js) and the transaction helper     *)
(* (db/transactions.js).                                                   *)
(*                                                                         *)
(* The datastore is MongoDB.  A write made with a session is buffered in   *)
(* the session's transaction and becomes visible at commitTransaction; a   *)
(* write made without a session is applied at once.  A transactional write *)
(* to a document that another open transaction has written, or that was    *)
(* changed after the transaction took its snapshot, fails with a           *)
(* WriteConflict (a TransientTransactionError).  A write without a session *)
(* waits while an open transaction holds the document.  Reads in this      *)
(* code never carry a session: they see the committed state.               *)
(***************************************************************************)
EXTENDS Integers, Sequences, FiniteSets, TLC

VARIABLES
    inv,      \* committed Inventory documents: product -> [a, r]
    orders,   \* committed Order documents, in creation order
    hist,     \* committed OrderStatusHistory rows per order, in append order
    pays,     \* committed Payment documents per order: sequence of statuses
    cart,     \* committed Cart documents: user -> sequence of lines
    proc,     \* the requests in flight: one record per request slot
    tx,       \* the open transaction (session) of each request slot
    budget,   \* operations that may still be started
    calls,    \* direct calls in flight (ledger and pricing specifications)
    audit     \* the AuditLog records whose target is an Order

vars == <<inv, orders, hist, pays, cart, proc, tx, budget, calls, audit>>

store == <<inv, orders, hist, pays, cart>>

-----------------------------------------------------------------------------
(* Bounds of the model *)

MaxOrders == 3      \* orders that may exist
MaxOps == 3         \* operations started in a run of Spec
MaxOrderOps == 6    \* operations started in a run of SpecOrders and SpecPay
InitAvail == 2      \* availableStock of every product at the start
LedgerAvail == 5    \* availableStock of the product of the ledger specifications
MaxCallQty == 3     \* largest quantity of a direct ledger call

MaxStock == InitAvail + 1
EditQty == {1}

Procs == {1, 2}
Callers == {1, 2, 3}
Products == {"p1", "p2", "p3"}
Users == {"u1", "u2"}
(* The id of a SUPER_ADMIN account, which buys nothing. *)
Admin == "admin"

(* The catalog: the store each product belongs to. *)
StoreOf(p) == IF p = "p3" THEN "s2" ELSE "s1"

(* The carts the users have filled: one line per product (addToCart merges).
   u1 buys from two stores; u1 and u2 compete for p2. *)
InitCart ==
    [u \in Users |->
        IF u = "u1"
        THEN << [p |-> "p1", q |-> 1], [p |-> "p3", q |-> 1], [p |-> "p2", q |-> 2] >>
        ELSE << [p |-> "p2", q |-> 1] >>]

(* One buyer with a cart of two lines of one store. *)
SingleCart ==
    [u \in Users |->
        IF u = "u1"
        THEN << [p |-> "p1", q |-> 1], [p |-> "p2", q |-> 2] >>
        ELSE << >>]

-----------------------------------------------------------------------------
(* constants/orderStatus.js *)

ORDER_STATUS_VALUES ==
    {"CREATED", "PAID", "PROCESSING", "SHIPPED", "DELIVERED", "CANCELLED", "REFUNDED"}

(* A table that lets a shipped order be cancelled. *)
TransitionsShippedCancellable ==
    [s \in ORDER_STATUS_VALUES |->
        CASE s = "CREATED"    -> {"PAID", "CANCELLED"}
          [] s = "PAID"       -> {"PROCESSING", "CANCELLED", "REFUNDED"}
          [] s = "PROCESSING" -> {"SHIPPED", "CANCELLED"}
          [] s = "SHIPPED"    -> {"DELIVERED", "CANCELLED"}
          [] s = "DELIVERED"  -> {"REFUNDED"}
          [] s = "CANCELLED"  -> {}
          [] s = "REFUNDED"   -> {}]

(* A table that lets a delivered order go back to processing. *)
TransitionsWithReturn ==
    [s \in ORDER_STATUS_VALUES |->
        CASE s = "CREATED"    -> {"PAID", "CANCELLED"}
          [] s = "PAID"       -> {"PROCESSING", "CANCELLED", "REFUNDED"}
          [] s = "PROCESSING" -> {"SHIPPED", "CANCELLED"}
          [] s = "SHIPPED"    -> {"DELIVERED"}
          [] s = "DELIVERED"  -> {"REFUNDED", "PROCESSING"}
          [] s = "CANCELLED"  -> {}
          [] s = "REFUNDED"   -> {}]

ORDER_STATUS_TRANSITIONS ==
    [s \in ORDER_STATUS_VALUES |->
        CASE s = "CREATED"    -> {"PAID", "CANCELLED"}
          [] s = "PAID"       -> {"PROCESSING", "CANCELLED", "REFUNDED"}
          [] s = "PROCESSING" -> {"SHIPPED", "CANCELLED"}
          [] s = "SHIPPED"    -> {"DELIVERED"}
          [] s = "DELIVERED"  -> {"REFUNDED"}
          [] s = "CANCELLED"  -> {}
          [] s = "REFUNDED"   -> {}]

CANCELLABLE_STATUSES == {"CREATED", "PAID", "PROCESSING"}

(* order.service.js isValidTransition *)
isValidTransition(currentStatus, newStatus) ==
    IF currentStatus \in DOMAIN ORDER_STATUS_TRANSITIONS
    THEN newStatus \in ORDER_STATUS_TRANSITIONS[currentStatus]
    ELSE FALSE

(* orderStatusHistory.model.js: the enum of actorRole, validated on create *)
ActorRoleEnum == {"USER", "SELLER", "SUPER_ADMIN"}

HistoryRowValid(role) == role \in ActorRoleEnum

-----------------------------------------------------------------------------
(* inventory.service.js: the filter and the update of each ledger write *)

(* A quantity check that lets zero through. *)
QuantityNotNegative(quantity) == quantity >= 0

(* The first statement of every ledger operation: quantity <= 0 throws
   'Quantity must be positive'. *)
QuantityPositive(quantity) == quantity > 0

(* reserveStock: the unguarded read and check of lines 161-169 *)
ReserveCheck(rec, q) == rec.a - rec.r >= q

(* A findOneAndUpdate of reserveStock whose filter matches on productId alone. *)
ReserveGuardDropped(rec, q) == TRUE

(* A filter of reserveStock that compares availableStock alone. *)
ReserveGuardAvailableOnly(rec, q) == rec.a >= q

(* reserveStock: the $expr filter of the findOneAndUpdate, line 176 *)
ReserveGuard(rec, q) == rec.a - rec.r >= q

(* A reservation of whatever part of a larger request is taken first. *)
ReservePartial(rec, q) == [rec EXCEPT !.r = @ + 1]

ReserveApply(rec, q) == [rec EXCEPT !.r = @ + q]

(* A release whose filter matches on productId alone. *)
ReleaseGuardDropped(rec, q) == TRUE

(* releaseReservedStock *)
ReleaseGuard(rec, q) == rec.r >= q

(* A release that also takes the units off the shelf. *)
ReleaseAlsoAvailable(rec, q) == [rec EXCEPT !.a = @ - q, !.r = @ - q]

ReleaseApply(rec, q) == [rec EXCEPT !.r = @ - q]

(* confirmReservation *)
ConfirmGuard(rec, q) == rec.r >= q /\ rec.a >= q

(* A confirmation that only drops the reservation. *)
ConfirmApplyReservedOnly(rec, q) == [rec EXCEPT !.r = @ - q]

ConfirmApply(rec, q) == [rec EXCEPT !.a = @ - q, !.r = @ - q]

(* decrementStock: the unguarded read and check of lines 129-136 *)
DecrementCheck(rec, q) == rec.a >= q

(* A findOneAndUpdate of decrementStock whose filter matches on productId alone. *)
DecrementGuardDropped(rec, q) == TRUE

(* decrementStock: the filter of the findOneAndUpdate, line 141 *)
DecrementGuard(rec, q) == rec.a >= q

DecrementApply(rec, q) == [rec EXCEPT !.a = @ - q]

(* incrementStock *)
IncrementApply(rec, q) == [rec EXCEPT !.a = @ + q]

(* updateStock: $set of availableStock *)
UpdateStockApply(rec, n) == [rec EXCEPT !.a = n]

(* payment.service.js processPayment: the $inc of lines 400-403 *)
PaymentStockApply(rec, q) == [rec EXCEPT !.r = @ - q]

-----------------------------------------------------------------------------
(* Sessions and transactions (db/transactions.js withTransaction) *)

EmptyTx ==
    [active |-> FALSE, stale |-> {}, inv |-> <<>>, ord |-> <<>>,
     newOrd |-> <<>>, hist |-> <<>>, pay |-> <<>>, cart |-> {}]

InvDoc(p) == <<"inv", p>>
OrdDoc(o) == <<"ord", o>>
CartDoc(u) == <<"cart", u>>

(* The documents a transaction has written and not yet committed. *)
Locked(t) ==
    {InvDoc(p) : p \in DOMAIN t.inv} \cup {OrdDoc(o) : o \in DOMAIN t.ord}
        \cup {CartDoc(u) : u \in t.cart}

LockedByOther(r, d) == \E r2 \in Procs \ {r} : d \in Locked(tx[r2])

LockedByAny(d) == \E r2 \in Procs : d \in Locked(tx[r2])

(* A transactional write of d by r fails with WriteConflict. *)
WriteConflict(r, d) == d \in tx[r].stale \/ LockedByOther(r, d)

(* The open transactions other than r's see the documents D as changed. *)
MarkStale(t, r, D) ==
    [r2 \in Procs |->
        IF r2 # r /\ t[r2].active
        THEN [t[r2] EXCEPT !.stale = @ \cup D]
        ELSE t[r2]]

(* What a transactional write of r finds in Inventory document p. *)
TxInv(r, p) == IF p \in DOMAIN tx[r].inv THEN tx[r].inv[p] ELSE inv[p]

(* A transactional write of rec to Inventory document p. *)
TxPutInv(t, p, rec) ==
    [t EXCEPT !.active = TRUE,
              !.inv = [x \in DOMAIN t.inv \cup {p} |-> IF x = p THEN rec ELSE t.inv[x]]]

(* A transactional save of order o with a new status. *)
TxPutOrd(t, o, st) ==
    [t EXCEPT !.active = TRUE,
              !.ord = [x \in DOMAIN t.ord \cup {o} |-> IF x = o THEN st ELSE t.ord[x]]]

Idle ==
    [op |-> "idle", pc |-> "idle", u |-> "none", o |-> 0, tgt |-> "none",
     role |-> "none", prev |-> "none", g |-> 0, i |-> 0, groups |-> <<>>, k |-> 0]

OrderIds == 1..Len(orders)

RECURSIVE SumOver(_, _)
SumOver(S, f) ==
    IF S = {} THEN 0
    ELSE LET x == CHOOSE y \in S : TRUE IN f[x] + SumOver(S \ {x}, f)

PendingOrders == SumOver(Procs, [r \in Procs |-> Len(tx[r].newOrd)])


(* A request takes the first free slot. *)
FreeSlot(r) == proc[r] = Idle /\ \A r2 \in Procs : r2 < r => proc[r2] # Idle

CanStart(r) == FreeSlot(r) /\ budget > 0

Rejected(op, o, prev, tgt) ==
    [Idle EXCEPT !.op = op, !.pc = "rejected", !.o = o, !.prev = prev, !.tgt = tgt]

(* A step of request r that touches nothing but r's own position. *)
Goto(r, rec) ==
    /\ proc' = [proc EXCEPT ![r] = rec]
    /\ UNCHANGED <<inv, orders, hist, pays, cart, tx, budget, calls, audit>>

(* A write of r made with its session: buffered in r's transaction. *)
SessionWrite(r, t, rec) ==
    /\ tx' = [tx EXCEPT ![r] = t]
    /\ proc' = [proc EXCEPT ![r] = rec]
    /\ UNCHANGED <<inv, orders, hist, pays, cart, budget, calls, audit>>

(* A write of Inventory document p made without a session: applied at once,
   after any open transaction that wrote p has ended. *)
PlainWriteInv(r, p, newRec, rec) ==
    /\ ~LockedByAny(InvDoc(p))
    /\ inv' = [inv EXCEPT ![p] = newRec]
    /\ tx' = MarkStale(tx, r, {InvDoc(p)})
    /\ proc' = [proc EXCEPT ![r] = rec]
    /\ UNCHANGED <<orders, hist, pays, cart, budget, calls, audit>>

-----------------------------------------------------------------------------
(* cart.service.js *)

(* validateCartForCheckout: a line is valid when availableStock covers it
   (getCartWithDetails, isAvailable); products and stores stay published. *)
validateCartForCheckout(lines) ==
    \A n \in 1..Len(lines) : inv[lines[n].p].a >= lines[n].q

(* The stores of the lines, in order of first appearance (a Map's order). *)
StoreOrder(lines) ==
    LET F[n \in 0..Len(lines)] ==
            IF n = 0 THEN <<>>
            ELSE LET s == StoreOf(lines[n].p)
                 IN IF \E j \in 1..Len(F[n - 1]) : F[n - 1][j] = s
                    THEN F[n - 1]
                    ELSE Append(F[n - 1], s)
    IN F[Len(lines)]

StoreLines(lines, s) ==
    LET F[n \in 0..Len(lines)] ==
            IF n = 0 THEN <<>>
            ELSE IF StoreOf(lines[n].p) = s THEN Append(F[n - 1], lines[n])
                 ELSE F[n - 1]
    IN F[Len(lines)]

(* A grouping that puts the whole cart into one group. *)
groupCartAsOneStore(lines) ==
    IF lines = <<>> THEN <<>>
    ELSE << [store |-> StoreOf(lines[1].p), items |-> lines] >>

groupCartByStore(lines) ==
    LET ss == StoreOrder(lines)
    IN [j \in 1..Len(ss) |-> [store |-> ss[j], items |-> StoreLines(lines, ss[j])]]

-----------------------------------------------------------------------------
(* JavaScript Number arithmetic: IEEE 754 binary64, round to nearest, ties to
   even, on the non-negative finite values that prices take. A natural number
   of any size is a sequence of limbs, least significant first. *)

Limb == 2 ^ 15
LimbBits == 15
MantissaBits == 53

RECURSIVE BNorm(_)
BNorm(a) ==
    IF a # <<>> /\ a[Len(a)] = 0 THEN BNorm(SubSeq(a, 1, Len(a) - 1)) ELSE a

RECURSIVE BFromInt(_)
BFromInt(n) == IF n = 0 THEN <<>> ELSE <<n % Limb>> \o BFromInt(n \div Limb)

BDigit(a, i) == IF i <= Len(a) THEN a[i] ELSE 0

BAdd(a, b) ==
    LET n == IF Len(a) >= Len(b) THEN Len(a) ELSE Len(b)
        C[i \in 0..n] ==
            IF i = 0 THEN 0 ELSE (BDigit(a, i) + BDigit(b, i) + C[i - 1]) \div Limb
    IN BNorm([i \in 1..(n + 1) |->
                  IF i <= n THEN (BDigit(a, i) + BDigit(b, i) + C[i - 1]) % Limb
                  ELSE C[n]])

(* a * k for 0 <= k <= Limb *)
BMulSmall(a, k) ==
    LET n == Len(a)
        C[i \in 0..n] == IF i = 0 THEN 0 ELSE (a[i] * k + C[i - 1]) \div Limb
    IN BNorm([i \in 1..(n + 1) |->
                  IF i <= n THEN (a[i] * k + C[i - 1]) % Limb ELSE C[n]])

BShlLimbs(a, n) == IF a = <<>> THEN <<>> ELSE [i \in 1..n |-> 0] \o a

BMul(a, b) ==
    LET F[i \in 0..Len(b)] ==
            IF i = 0 THEN <<>>
            ELSE BAdd(F[i - 1], BShlLimbs(BMulSmall(a, b[i]), i - 1))
    IN F[Len(b)]

(* Quotient and remainder of a by k, 0 < k <= Limb *)
BDivSmall(a, k) ==
    LET n == Len(a)
        R[i \in 1..(n + 1)] == IF i = n + 1 THEN 0 ELSE (R[i + 1] * Limb + a[i]) % k
    IN [q |-> BNorm([i \in 1..n |-> (R[i + 1] * Limb + a[i]) \div k]), r |-> R[1]]

(* a * 2^n and floor(a / 2^n) *)
BShl(a, n) == BShlLimbs(BMulSmall(a, 2 ^ (n % LimbBits)), n \div LimbBits)

BShr(a, n) ==
    LET d == n \div LimbBits
    IN IF d >= Len(a) THEN <<>>
       ELSE BDivSmall(SubSeq(a, d + 1, Len(a)), 2 ^ (n % LimbBits)).q

(* Bit i of a, bit 0 the least significant *)
BBit(a, i) == (BDigit(a, i \div LimbBits + 1) \div (2 ^ (i % LimbBits))) % 2

BBitLen(a) ==
    IF a = <<>> THEN 0
    ELSE LimbBits * (Len(a) - 1)
           + (CHOOSE k \in 1..LimbBits : 2 ^ (k - 1) <= a[Len(a)] /\ a[Len(a)] < 2 ^ k)

(* A Number is m * 2^e with 2^52 <= m < 2^53, or zero. *)
DZero == [m |-> <<>>, e |-> 0]

(* The Number nearest to M * 2^e, ties to even. *)
DRound(M, e) ==
    LET L == BBitLen(M)
    IN IF L = 0 THEN DZero
       ELSE IF L <= MantissaBits
       THEN [m |-> BShl(M, MantissaBits - L), e |-> e - (MantissaBits - L)]
       ELSE LET s == L - MantissaBits
                q == BShr(M, s)
                up == /\ BBit(M, s - 1) = 1
                      /\ \/ BBit(M, s) = 1
                         \/ \E i \in 0..(s - 2) : BBit(M, i) = 1
                q1 == IF up THEN BAdd(q, <<1>>) ELSE q
            IN IF BBitLen(q1) > MantissaBits
               THEN [m |-> BShr(q1, 1), e |-> e + s + 1]
               ELSE [m |-> q1, e |-> e + s]

(* An integer literal or value, 0 <= n < 2^31 *)
DFromInt(n) == DRound(BFromInt(n), 0)

(* x + y *)
DAdd(x, y) ==
    IF x.m = <<>> THEN y
    ELSE IF y.m = <<>> THEN x
    ELSE LET e == IF x.e <= y.e THEN x.e ELSE y.e
         IN DRound(BAdd(BShl(x.m, x.e - e), BShl(y.m, y.e - e)), e)

(* x * y *)
DMul(x, y) == DRound(BMul(x.m, y.m), x.e + y.e)

(* x / k for an integer 0 < k <= Limb: the quotient to 83 bits or more and a
   sticky bit for the remainder, rounded once. *)
DDivInt(x, k) ==
    LET d == BDivSmall(BShl(x.m, 2 * LimbBits), k)
    IN DRound(BAdd(BMulSmall(d.q, 2), IF d.r > 0 THEN <<1>> ELSE <<>>),
              x.e - 2 * LimbBits - 1)

(* x >= y *)
DGeq(x, y) ==
    IF y.m = <<>> THEN TRUE
    ELSE IF x.m = <<>> THEN FALSE
    ELSE IF x.e # y.e THEN x.e > y.e
    ELSE LET D == {i \in 1..Len(x.m) : x.m[i] # y.m[i]}
         IN D = {} \/ LET i == CHOOSE j \in D : \A j2 \in D : j2 <= j
                      IN x.m[i] > y.m[i]

(* Math.round(x): floor(x + 0.5), exactly *)
MathRound(x) ==
    IF x.m = <<>> \/ x.e >= 0 THEN x
    ELSE DRound(BAdd(BShr(x.m, -x.e), IF BBit(x.m, -x.e - 1) = 1 THEN <<1>> ELSE <<>>), 0)

(* The Number a decimal amount of c cents is stored as: the nearest to c/100. *)
Cents(c) == DDivInt(DFromInt(c), 100)

(* order.service.js lines 80-84: the pricing of a store group *)

(* Line 82: tax = Math.round(subtotal * 0.1 * 100) / 100 *)
PriceTax(subtotal) ==
    DDivInt(MathRound(DMul(DMul(subtotal, Cents(10)), DFromInt(100))), 100)

(* Line 83: shippingFee = subtotal >= 50 ? 0 : 5.99 *)
PriceShippingFee(subtotal) ==
    IF DGeq(subtotal, DFromInt(50)) THEN DZero ELSE Cents(599)

(* Line 84: totalAmount = Math.round((subtotal + tax + shippingFee) * 100) / 100 *)
PriceTotalAmount(subtotal, tax, shippingFee) ==
    DDivInt(MathRound(DMul(DAdd(DAdd(subtotal, tax), shippingFee), DFromInt(100))), 100)

(* The catalog: the unit price of each product, in cents. *)
UnitPrice(p) == IF p = "p3" THEN 4000 ELSE 2000

(* cart.service.js line 86: lineTotal = price.price * item.quantity *)
lineTotal(price, q) == DMul(Cents(price), DFromInt(q))

(* groupCartByStore, line 342, and lines 80-107: the pricing stored in the
   order of a store group. *)
OrderPricing(items) ==
    LET S[n \in 0..Len(items)] ==
            IF n = 0 THEN DZero
            ELSE DAdd(S[n - 1], lineTotal(UnitPrice(items[n].p), items[n].q))
        subtotal == S[Len(items)]
        tax == PriceTax(subtotal)
        shippingFee == PriceShippingFee(subtotal)
    IN [subtotal |-> subtotal, tax |-> tax, shippingFee |-> shippingFee,
        totalAmount |-> PriceTotalAmount(subtotal, tax, shippingFee)]

-----------------------------------------------------------------------------
(* order.service.js createOrdersFromCart *)

createOrdersFromCart(r, u) ==
    /\ CanStart(r)
    /\ Len(orders) + PendingOrders + Len(groupCartByStore(cart[u])) <= MaxOrders
    /\ budget' = budget - 1
    /\ proc' = [proc EXCEPT ![r] =
                    IF cart[u] # <<>> /\ validateCartForCheckout(cart[u])
                    THEN [Idle EXCEPT !.op = "createOrdersFromCart", !.pc = "co_group", !.u = u]
                    ELSE [Idle EXCEPT !.op = "createOrdersFromCart", !.pc = "rejected", !.u = u]]
    /\ UNCHANGED <<inv, orders, hist, pays, cart, tx, calls, audit>>

CheckoutGroup(r) ==
    /\ proc[r].pc = "co_group"
    /\ LET gs == groupCartByStore(cart[proc[r].u])
       IN Goto(r, IF gs = <<>>
                  THEN [proc[r] EXCEPT !.pc = "rejected"]
                  ELSE [proc[r] EXCEPT !.pc = "co_rread", !.groups = gs, !.g = 1, !.i = 1])

CheckoutLine(r) == proc[r].groups[proc[r].g].items[proc[r].i]

(* reserveStock, lines 161-169: the read carries no session. *)
CheckoutReserveRead(r) ==
    /\ proc[r].pc = "co_rread"
    /\ LET l == CheckoutLine(r)
       IN Goto(r, IF ReserveCheck(inv[l.p], l.q)
                  THEN [proc[r] EXCEPT !.pc = "co_rwrite"]
                  ELSE [proc[r] EXCEPT !.pc = "abort"])

AfterReserve(r) ==
    IF proc[r].i < Len(proc[r].groups[proc[r].g].items)
    THEN [proc[r] EXCEPT !.pc = "co_rread", !.i = @ + 1]
    ELSE [proc[r] EXCEPT !.pc = "co_create"]

(* A reserveStock called without the session: the update applies at once. *)
CheckoutReserveWriteNoSession(r) ==
    /\ proc[r].pc = "co_rwrite"
    /\ LET l == CheckoutLine(r)
           cur == inv[l.p]
       IN IF ~ReserveGuard(cur, l.q)
          THEN Goto(r, [proc[r] EXCEPT !.pc = "abort"])
          ELSE PlainWriteInv(r, l.p, ReserveApply(cur, l.q), AfterReserve(r))

(* reserveStock, lines 171-186: the guarded update, in the session. *)
CheckoutReserveWrite(r) ==
    /\ proc[r].pc = "co_rwrite"
    /\ LET l == CheckoutLine(r)
           cur == TxInv(r, l.p)
       IN IF WriteConflict(r, InvDoc(l.p))
          THEN Goto(r, [proc[r] EXCEPT !.pc = "conflict"])
          ELSE IF ~ReserveGuard(cur, l.q)
          THEN Goto(r, [proc[r] EXCEPT !.pc = "abort"])
          ELSE SessionWrite(r, TxPutInv(tx[r], l.p, ReserveApply(cur, l.q)), AfterReserve(r))

(* Order.create and OrderStatusHistory.create of one store group. *)
CheckoutCreate(r) ==
    /\ proc[r].pc = "co_create"
    /\ LET grp == proc[r].groups[proc[r].g]
           t == [tx[r] EXCEPT !.active = TRUE,
                              !.newOrd = Append(@, [user |-> proc[r].u, store |-> grp.store,
                                                    items |-> grp.items,
                                                    pricing |-> OrderPricing(grp.items)])]
       IN SessionWrite(r, t,
              IF proc[r].g < Len(proc[r].groups)
              THEN [proc[r] EXCEPT !.pc = "co_rread", !.g = @ + 1, !.i = 1]
              ELSE [proc[r] EXCEPT !.pc = "co_clear"])

(* Cart.findOneAndUpdate({userId}, {items: []}, {session}) *)
CheckoutClearCart(r) ==
    /\ proc[r].pc = "co_clear"
    /\ IF WriteConflict(r, CartDoc(proc[r].u))
       THEN Goto(r, [proc[r] EXCEPT !.pc = "conflict"])
       ELSE SessionWrite(r, [tx[r] EXCEPT !.active = TRUE, !.cart = @ \cup {proc[r].u}],
                         [proc[r] EXCEPT !.pc = "commit"])

-----------------------------------------------------------------------------
(* db/transactions.js withTransaction: commit, abort *)

NewOrderDoc(n) ==
    [status |-> "CREATED", user |-> n.user, store |-> n.store, items |-> n.items,
     pricing |-> n.pricing]

RowsFor(rows, o) ==
    LET F[n \in 0..Len(rows)] ==
            IF n = 0 THEN <<>>
            ELSE IF rows[n][1] = o THEN Append(F[n - 1], rows[n][2]) ELSE F[n - 1]
    IN F[Len(rows)]

(* After withTransaction has returned, the operation logs: checkout one
   record per created order (they follow the orders present at the commit),
   a status operation one record. *)
AfterCommit(r) ==
    IF proc[r].op = "createOrdersFromCart"
    THEN [proc[r] EXCEPT !.pc = "audit", !.o = Len(orders), !.i = 1]
    ELSE [proc[r] EXCEPT !.pc = "audit", !.i = 1]

(* session.commitTransaction(): every buffered write becomes visible at once. *)
Commit(r) ==
    /\ proc[r].pc = "commit"
    /\ LET t == tx[r]
           k == Len(orders)
           m == Len(t.newOrd)
       IN /\ inv' = [p \in Products |-> IF p \in DOMAIN t.inv THEN t.inv[p] ELSE inv[p]]
          /\ orders' = [o \in 1..(k + m) |->
                           IF o > k THEN NewOrderDoc(t.newOrd[o - k])
                           ELSE IF o \in DOMAIN t.ord THEN [orders[o] EXCEPT !.status = t.ord[o]]
                           ELSE orders[o]]
          /\ hist' = [o \in 1..(k + m) |->
                           IF o > k THEN <<"CREATED">> ELSE hist[o] \o RowsFor(t.hist, o)]
          /\ pays' = [o \in 1..(k + m) |->
                           IF o > k THEN <<>> ELSE pays[o] \o RowsFor(t.pay, o)]
          /\ cart' = [u \in Users |-> IF u \in t.cart THEN <<>> ELSE cart[u]]
          /\ tx' = [MarkStale(tx, r, Locked(t)) EXCEPT ![r] = EmptyTx]
    /\ proc' = [proc EXCEPT ![r] = AfterCommit(r)]
    /\ UNCHANGED <<budget, calls, audit>>

(* The catch branch: session.abortTransaction() drops every buffered write
   and the error is thrown on to the caller, a WriteConflict (pc "conflict")
   like any other error (pc "abort"). *)
Abort(r) ==
    /\ proc[r].pc \in {"abort", "conflict"}
    /\ tx' = [tx EXCEPT ![r] = EmptyTx]
    /\ proc' = [proc EXCEPT ![r] = Idle]
    /\ UNCHANGED <<inv, orders, hist, pays, cart, budget, calls, audit>>

(* A createAuditLog whose catch throws the error on. *)
createAuditLogRethrows(created) == IF created THEN "resolved" ELSE "rejected"

(* audit.service.js createAuditLog, lines 21-61: AuditLog.create inside a
   try whose catch logs the error and returns; the call resolves whether or
   not the record was created. *)
createAuditLog(created) == "resolved"

(* The record that the operation of r logs next. *)
AuditEntry(r) ==
    IF proc[r].op = "createOrdersFromCart"
    THEN [action |-> "ORDER_CREATE", o |-> proc[r].o + proc[r].i,
          prev |-> "none", new |-> "CREATED"]
    ELSE [action |-> IF proc[r].op = "markOrderPaid" THEN "PAYMENT_SUCCESS"
                     ELSE "ORDER_STATUS_CHANGE",
          o |-> proc[r].o, prev |-> proc[r].prev, new |-> proc[r].tgt]

(* order.service.js lines 135-148, 319-331, 401-412: after a resolved
   createAuditLog the loop of checkout goes on, and the operation returns
   its result (the created orders; getOrderById); a rejected one would be
   thrown on to the caller. *)
AfterAudit(r, outcome) ==
    IF outcome # "resolved" THEN [proc[r] EXCEPT !.pc = "rejected"]
    ELSE IF proc[r].op = "createOrdersFromCart" /\ proc[r].i < Len(proc[r].groups)
    THEN [proc[r] EXCEPT !.i = @ + 1]
    ELSE Idle

Audit(r, created) ==
    /\ proc[r].pc = "audit"
    /\ audit' = IF created THEN audit \cup {AuditEntry(r)} ELSE audit
    /\ proc' = [proc EXCEPT ![r] = AfterAudit(r, createAuditLog(created))]
    /\ UNCHANGED <<inv, orders, hist, pays, cart, tx, budget, calls>>

(* AuditLog.create stores the record. *)
AuditLogCreated(r) == Audit(r, TRUE)

(* AuditLog.create throws: a validation or storage error. *)
AuditLogFailed(r) == Audit(r, FALSE)

(* A call that threw before opening a transaction returns its error. *)
Return(r) ==
    /\ proc[r].pc = "rejected"
    /\ Goto(r, Idle)

InTransaction(r) ==
    proc[r].pc \in {"co_rread", "co_rwrite", "co_create", "co_clear", "us_save",
                    "confirm", "release", "mp_pay", "mp_hist", "commit"}

(* Any storage call inside fn, or commitTransaction itself, may throw. *)
StorageFailure(r) ==
    /\ InTransaction(r)
    /\ Goto(r, [proc[r] EXCEPT !.pc = "abort"])

-----------------------------------------------------------------------------
(* order.service.js updateOrderStatus and the calls that delegate to it *)

(* Lines 276-286: read the order, validate the transition. *)
ReadAndValidate(rec, o) ==
    IF isValidTransition(orders[o].status, rec.tgt)
    THEN [rec EXCEPT !.pc = "us_save", !.o = o, !.prev = orders[o].status]
    ELSE [rec EXCEPT !.pc = "rejected", !.o = o, !.prev = orders[o].status]

Start(r, rec) ==
    /\ CanStart(r)
    /\ budget' = budget - 1
    /\ proc' = [proc EXCEPT ![r] = rec]
    /\ UNCHANGED <<inv, orders, hist, pays, cart, tx, calls, audit>>

updateOrderStatus(r, o, newStatus) ==
    /\ o \in OrderIds
    /\ Start(r, ReadAndValidate([Idle EXCEPT !.op = "updateOrderStatus", !.tgt = newStatus,
                                             !.role = "SUPER_ADMIN"], o))

(* A wrapper that passed its own check calls updateOrderStatus, which reads
   the order again. *)
Delegate(op, o, ok, newStatus, role) ==
    IF ok
    THEN [Idle EXCEPT !.op = op, !.pc = "us_read", !.o = o, !.tgt = newStatus, !.role = role]
    ELSE [Idle EXCEPT !.op = op, !.pc = "rejected", !.o = o, !.tgt = newStatus,
                      !.role = role, !.prev = orders[o].status]

(* cancelOrder without the check of the caller. *)
cancelOrderAnyCaller(r, o, userId, role) ==
    /\ o \in OrderIds
    /\ Start(r, [Delegate("cancelOrder", o, orders[o].status \in CANCELLABLE_STATUSES,
                          "CANCELLED", role) EXCEPT !.u = userId])

(* cancelOrder: the caller is the buyer or a SUPER_ADMIN, the status cancellable. *)
cancelOrder(r, o, userId, role) ==
    /\ o \in OrderIds
    /\ Start(r, [Delegate("cancelOrder", o,
                          (role = "SUPER_ADMIN" \/ orders[o].user = userId)
                               /\ orders[o].status \in CANCELLABLE_STATUSES,
                          "CANCELLED", role) EXCEPT !.u = userId])

(* processOrder passing an actor role the history schema does not know. *)
processOrderAsSystem(r, o) ==
    /\ o \in OrderIds
    /\ Start(r, Delegate("processOrder", o, TRUE, "PROCESSING", "SYSTEM"))

(* processOrder checks the seller only. *)
processOrder(r, o) ==
    /\ o \in OrderIds
    /\ Start(r, Delegate("processOrder", o, TRUE, "PROCESSING", "SELLER"))

shipOrder(r, o) ==
    /\ o \in OrderIds
    /\ Start(r, Delegate("shipOrder", o, orders[o].status = "PROCESSING", "SHIPPED", "SELLER"))

deliverOrder(r, o) ==
    /\ o \in OrderIds
    /\ Start(r, Delegate("deliverOrder", o, orders[o].status = "SHIPPED", "DELIVERED", "SELLER"))

UpdateRead(r) ==
    /\ proc[r].pc = "us_read"
    /\ Goto(r, ReadAndValidate(proc[r], proc[r].o))

(* A save that is followed by a confirmation for PROCESSING as well. *)
AfterSaveConfirmsProcessing(rec) ==
    IF rec.tgt \in {"PAID", "PROCESSING"}
    THEN [rec EXCEPT !.pc = "confirm", !.i = 1]
    ELSE IF rec.tgt \in {"CANCELLED", "REFUNDED"} /\ rec.prev = "CREATED"
         THEN [rec EXCEPT !.pc = "release", !.i = 1]
         ELSE [rec EXCEPT !.pc = "commit"]

(* Lines 302-315: which ledger calls follow the save. *)
AfterSave(rec) ==
    IF rec.tgt = "PAID"
    THEN [rec EXCEPT !.pc = "confirm", !.i = 1]
    ELSE IF rec.tgt \in {"CANCELLED", "REFUNDED"} /\ rec.prev = "CREATED"
         THEN [rec EXCEPT !.pc = "release", !.i = 1]
         ELSE [rec EXCEPT !.pc = "commit"]

(* Lines 289-300: order.save({session}) and OrderStatusHistory.create. *)
UpdateSave(r) ==
    /\ proc[r].pc = "us_save"
    /\ LET o == proc[r].o
       IN IF WriteConflict(r, OrdDoc(o))
          THEN Goto(r, [proc[r] EXCEPT !.pc = "conflict"])
          ELSE IF ~HistoryRowValid(proc[r].role)
          THEN Goto(r, [proc[r] EXCEPT !.pc = "abort"])
          ELSE SessionWrite(r,
                   [TxPutOrd(tx[r], o, proc[r].tgt) EXCEPT
                        !.hist = Append(@, <<o, proc[r].tgt>>)],
                   AfterSave(proc[r]))

OrderItem(r) == orders[proc[r].o].items[proc[r].i]

AfterItem(r) ==
    IF proc[r].i < Len(orders[proc[r].o].items)
    THEN [proc[r] EXCEPT !.i = @ + 1]
    ELSE IF proc[r].op = "markOrderPaid"
         THEN [proc[r] EXCEPT !.pc = "mp_hist"]
         ELSE [proc[r] EXCEPT !.pc = "commit"]

(* A confirmReservation called without the session. *)
ConfirmItemNoSession(r) ==
    /\ proc[r].pc = "confirm"
    /\ LET it == OrderItem(r)
           cur == inv[it.p]
       IN IF ~ConfirmGuard(cur, it.q)
          THEN Goto(r, [proc[r] EXCEPT !.pc = "abort"])
          ELSE PlainWriteInv(r, it.p, ConfirmApply(cur, it.q), AfterItem(r))

(* confirmReservation(item.productId, item.quantity, session) *)
ConfirmItem(r) ==
    /\ proc[r].pc = "confirm"
    /\ LET it == OrderItem(r)
           cur == TxInv(r, it.p)
       IN IF WriteConflict(r, InvDoc(it.p))
          THEN Goto(r, [proc[r] EXCEPT !.pc = "conflict"])
          ELSE IF ~ConfirmGuard(cur, it.q)
          THEN Goto(r, [proc[r] EXCEPT !.pc = "abort"])
          ELSE SessionWrite(r, TxPutInv(tx[r], it.p, ConfirmApply(cur, it.q)), AfterItem(r))

(* releaseReservedStock(item.productId, item.quantity, session) *)
ReleaseItem(r) ==
    /\ proc[r].pc = "release"
    /\ LET it == OrderItem(r)
           cur == TxInv(r, it.p)
       IN IF WriteConflict(r, InvDoc(it.p))
          THEN Goto(r, [proc[r] EXCEPT !.pc = "conflict"])
          ELSE IF ~ReleaseGuard(cur, it.q)
          THEN Goto(r, [proc[r] EXCEPT !.pc = "abort"])
          ELSE SessionWrite(r, TxPutInv(tx[r], it.p, ReleaseApply(cur, it.q)), AfterItem(r))

-----------------------------------------------------------------------------
(* order.service.js markOrderPaid *)

markOrderPaid(r, o) ==
    /\ o \in OrderIds
    /\ Start(r, IF orders[o].status = "CREATED"
                THEN [Idle EXCEPT !.op = "markOrderPaid", !.pc = "mp_pay", !.o = o,
                                  !.tgt = "PAID", !.prev = "CREATED", !.role = "SYSTEM"]
                ELSE Rejected("markOrderPaid", o, orders[o].status, "PAID"))

(* Lines 371-383: Payment.create (SUCCESS) and order.save, in the session. *)
MarkPaidSave(r) ==
    /\ proc[r].pc = "mp_pay"
    /\ LET o == proc[r].o
       IN IF WriteConflict(r, OrdDoc(o))
          THEN Goto(r, [proc[r] EXCEPT !.pc = "conflict"])
          ELSE SessionWrite(r,
                   [TxPutOrd(tx[r], o, "PAID") EXCEPT !.pay = Append(@, <<o, "SUCCESS">>)],
                   [proc[r] EXCEPT !.pc = "confirm", !.i = 1])

(* Lines 391-397: the history row, created with actorRole SYSTEM. *)
MarkPaidHistory(r) ==
    /\ proc[r].pc = "mp_hist"
    /\ IF HistoryRowValid(proc[r].role)
       THEN SessionWrite(r, [tx[r] EXCEPT !.hist = Append(@, <<proc[r].o, "PAID">>)],
                         [proc[r] EXCEPT !.pc = "commit"])
       ELSE Goto(r, [proc[r] EXCEPT !.pc = "abort"])

-----------------------------------------------------------------------------
(* payment.service.js initiatePayment, processPayment *)

PAYMENT_OPEN == {"INITIATED", "SUCCESS"}

(* Payment.findOne({orderId, status: {$in: [INITIATED, SUCCESS]}}): the first. *)
ExistingPayment(o) ==
    LET ks == {k \in 1..Len(pays[o]) : pays[o][k] \in PAYMENT_OPEN}
    IN IF ks = {} THEN 0 ELSE CHOOSE k \in ks : \A k2 \in ks : k <= k2

initiatePayment(r, o) ==
    /\ o \in OrderIds
    /\ Start(r, IF orders[o].status # "CREATED"
                THEN Rejected("initiatePayment", o, orders[o].status, "none")
                ELSE IF ExistingPayment(o) = 0
                     THEN [Idle EXCEPT !.op = "initiatePayment", !.pc = "ip_create", !.o = o]
                     ELSE IF pays[o][ExistingPayment(o)] = "SUCCESS"
                          THEN Rejected("initiatePayment", o, orders[o].status, "none")
                          ELSE Idle)

(* Lines 308-337: the INITIATED payment, saved and committed. *)
InitiatePaymentCreate(r) ==
    /\ proc[r].pc = "ip_create"
    /\ pays' = [pays EXCEPT ![proc[r].o] = Append(@, "INITIATED")]
    /\ proc' = [proc EXCEPT ![r] = Idle]
    /\ UNCHANGED <<inv, orders, hist, cart, tx, budget, calls, audit>>

processPayment(r, o, k) ==
    /\ o \in OrderIds
    /\ k \in 1..Len(pays[o])
    /\ Start(r, IF pays[o][k] = "INITIATED"
                THEN [Idle EXCEPT !.op = "processPayment", !.pc = "pp_save", !.o = o, !.k = k,
                                  !.tgt = "PAID", !.role = "USER"]
                ELSE [Rejected("processPayment", o, "none", "none") EXCEPT !.k = k])

(* Lines 372-375: payment.save(), no session. *)
ProcessPaymentSave(r) ==
    /\ proc[r].pc = "pp_save"
    /\ pays' = [pays EXCEPT ![proc[r].o][proc[r].k] = "SUCCESS"]
    /\ proc' = [proc EXCEPT ![r].pc = "pp_order"]
    /\ UNCHANGED <<inv, orders, hist, cart, tx, budget, calls, audit>>

(* Lines 378-383: read the order; only a CREATED order is touched. *)
ProcessPaymentReadOrder(r) ==
    /\ proc[r].pc = "pp_order"
    /\ Goto(r, IF orders[proc[r].o].status = "CREATED"
               THEN [proc[r] EXCEPT !.pc = "pp_saveOrder", !.prev = "CREATED"]
               ELSE Idle)

(* An order.save() that writes the pricing again, from an emptied item list. *)
ProcessPaymentSaveOrderRepriced(r) ==
    /\ proc[r].pc = "pp_saveOrder"
    /\ ~LockedByAny(OrdDoc(proc[r].o))
    /\ orders' = [orders EXCEPT ![proc[r].o].status = "PAID",
                                ![proc[r].o].pricing = OrderPricing(<<>>)]
    /\ tx' = MarkStale(tx, r, {OrdDoc(proc[r].o)})
    /\ proc' = [proc EXCEPT ![r].pc = "pp_hist"]
    /\ UNCHANGED <<inv, hist, pays, cart, budget, calls, audit>>

(* Lines 384-386: order.save(), no session. *)
ProcessPaymentSaveOrder(r) ==
    /\ proc[r].pc = "pp_saveOrder"
    /\ ~LockedByAny(OrdDoc(proc[r].o))
    /\ orders' = [orders EXCEPT ![proc[r].o].status = "PAID"]
    /\ tx' = MarkStale(tx, r, {OrdDoc(proc[r].o)})
    /\ proc' = [proc EXCEPT ![r].pc = "pp_hist"]
    /\ UNCHANGED <<inv, hist, pays, cart, budget, calls, audit>>

(* Lines 389-396: OrderStatusHistory.create, no session. *)
ProcessPaymentHistory(r) ==
    /\ proc[r].pc = "pp_hist"
    /\ IF HistoryRowValid(proc[r].role)
       THEN /\ hist' = [hist EXCEPT ![proc[r].o] = Append(@, "PAID")]
            /\ proc' = [proc EXCEPT ![r].pc = "pp_inv", ![r].i = 1]
       ELSE /\ hist' = hist
            /\ proc' = [proc EXCEPT ![r] = Idle]
    /\ UNCHANGED <<inv, orders, pays, cart, tx, budget, calls, audit>>

(* Lines 399-404: per item, Inventory.findOneAndUpdate with no filter on the
   counters and no session. *)
ProcessPaymentStock(r) ==
    /\ proc[r].pc = "pp_inv"
    /\ LET it == OrderItem(r)
       IN PlainWriteInv(r, it.p, PaymentStockApply(inv[it.p], it.q),
                        IF proc[r].i < Len(orders[proc[r].o].items)
                        THEN [proc[r] EXCEPT !.i = @ + 1]
                        ELSE Idle)

(* A storage call of processPayment throws: nothing is rolled back. *)
ProcessPaymentFailure(r) ==
    /\ proc[r].pc \in {"pp_save", "pp_order", "pp_saveOrder", "pp_hist", "pp_inv"}
    /\ Goto(r, Idle)

-----------------------------------------------------------------------------
(* inventory.service.js: the seller's stock edits, made without a session *)

ManualEdit(p, newRec) ==
    /\ budget > 0
    /\ budget' = budget - 1
    /\ ~LockedByAny(InvDoc(p))
    /\ inv' = [inv EXCEPT ![p] = newRec]
    /\ tx' = MarkStale(tx, 0, {InvDoc(p)})
    /\ UNCHANGED <<orders, hist, pays, cart, proc, calls, audit>>

incrementStock(p, q) ==
    /\ inv[p].a + q <= MaxStock
    /\ ManualEdit(p, IncrementApply(inv[p], q))

decrementStock(p, q) ==
    /\ DecrementGuard(inv[p], q)
    /\ ManualEdit(p, DecrementApply(inv[p], q))

updateStock(p, availableStock) ==
    /\ availableStock >= 0
    /\ availableStock # inv[p].a
    /\ ManualEdit(p, UpdateStockApply(inv[p], availableStock))

-----------------------------------------------------------------------------
(* The system *)

InitStore ==
    /\ inv = [p \in Products |-> [a |-> InitAvail, r |-> 0]]
    /\ orders = <<>>
    /\ hist = <<>>
    /\ pays = <<>>
    /\ proc = [r \in Procs |-> Idle]
    /\ tx = [r \in Procs |-> EmptyTx]
    /\ calls = <<>>
    /\ audit = {}

Init == InitStore /\ cart = InitCart /\ budget = MaxOps

TransactionSteps(r) ==
    \/ Commit(r)
    \/ AuditLogCreated(r)
    \/ Abort(r)
    \/ Return(r)
    \/ StorageFailure(r)

CheckoutSteps(r) ==
    \/ \E u \in Users : createOrdersFromCart(r, u)
    \/ CheckoutGroup(r)
    \/ CheckoutReserveRead(r)
    \/ CheckoutReserveWrite(r)
    \/ CheckoutCreate(r)
    \/ CheckoutClearCart(r)

StatusSteps(r) ==
    \/ \E o \in OrderIds, s \in ORDER_STATUS_VALUES : updateOrderStatus(r, o, s)
    \/ \E o \in OrderIds, u \in Users : cancelOrder(r, o, u, "USER")
    \/ \E o \in OrderIds : cancelOrder(r, o, Admin, "SUPER_ADMIN")
    \/ \E o \in OrderIds : processOrder(r, o)
    \/ \E o \in OrderIds : shipOrder(r, o)
    \/ \E o \in OrderIds : deliverOrder(r, o)
    \/ UpdateRead(r)
    \/ UpdateSave(r)
    \/ ConfirmItem(r)
    \/ ReleaseItem(r)

PaymentSteps(r) ==
    \/ \E o \in OrderIds : markOrderPaid(r, o)
    \/ MarkPaidSave(r)
    \/ MarkPaidHistory(r)
    \/ \E o \in OrderIds : initiatePayment(r, o)
    \/ InitiatePaymentCreate(r)
    \/ \E o \in OrderIds : \E k \in 1..Len(pays[o]) : processPayment(r, o, k)
    \/ ProcessPaymentSave(r)
    \/ ProcessPaymentReadOrder(r)
    \/ ProcessPaymentSaveOrder(r)
    \/ ProcessPaymentHistory(r)
    \/ ProcessPaymentStock(r)
    \/ ProcessPaymentFailure(r)

StockEdits ==
    \/ \E p \in Products, q \in EditQty : incrementStock(p, q)
    \/ \E p \in Products, q \in EditQty : decrementStock(p, q)
    \/ \E p \in Products, n \in 0..MaxStock : updateStock(p, n)

NextOrders ==
    \E r \in Procs : TransactionSteps(r) \/ CheckoutSteps(r) \/ StatusSteps(r) \/ PaymentSteps(r)

Next == NextOrders \/ StockEdits \/ \E r \in Procs : AuditLogFailed(r)

Spec == Init /\ [][Next]_vars

(* The order engine without the seller's stock edits. *)
InitOrders == InitStore /\ cart = SingleCart /\ budget = MaxOrderOps

SpecOrders == InitOrders /\ [][NextOrders]_vars

(* Checkout and the two payment paths alone. *)
NextPay ==
    \E r \in Procs :
        TransactionSteps(r) \/ CheckoutSteps(r) \/ PaymentSteps(r) \/ ConfirmItem(r)

SpecPay == InitOrders /\ [][NextPay]_vars

-----------------------------------------------------------------------------
(* Two buyers of one product: checkout, payment by the state machine and
   cancellation, without the payment service and without stock edits. *)

PairCart == [u \in Users |-> << [p |-> "p2", q |-> 1] >>]

InitPair == InitStore /\ cart = PairCart /\ budget = MaxOrderOps

NextPair ==
    \E r \in Procs :
        \/ TransactionSteps(r)
        \/ CheckoutSteps(r)
        \/ \E o \in OrderIds : updateOrderStatus(r, o, "PAID")
        \/ \E o \in OrderIds, u \in Users : cancelOrder(r, o, u, "USER")
        \/ UpdateRead(r)
        \/ UpdateSave(r)
        \/ ConfirmItem(r)
        \/ ReleaseItem(r)

SpecPair == InitPair /\ [][NextPair]_vars

-----------------------------------------------------------------------------
(* The ledger called directly, outside any transaction (session = null):
   concurrent callers of reserveStock on one inventory record. *)

LedgerProduct == "p1"

(* A product id that has no inventory record. *)
NoRecord == "p0"

IdleCall == [op |-> "none", pc |-> "idle", p |-> "none", q |-> 0, res |-> "none"]

CallStep(c, rec) ==
    /\ calls' = [calls EXCEPT ![c] = rec]
    /\ UNCHANGED <<orders, hist, pays, cart, proc, tx, budget, audit>>

(* reserveStock, lines 156-159: the call and the check of the quantity. *)
reserveStock(c, p, q) ==
    /\ calls[c].pc = "idle"
    /\ IF QuantityPositive(q)
       THEN CallStep(c, [op |-> "reserveStock", pc |-> "read", p |-> p, q |-> q, res |-> "none"])
       ELSE CallStep(c, [op |-> "reserveStock", pc |-> "done", p |-> p, q |-> q,
                         res |-> "quantity"])
    /\ UNCHANGED inv

(* reserveStock, lines 161-169: findOne, then the check of the free stock. *)
ReserveStockRead(c) ==
    /\ calls[c].op = "reserveStock"
    /\ calls[c].pc = "read"
    /\ IF calls[c].p \notin DOMAIN inv
       THEN CallStep(c, [calls[c] EXCEPT !.pc = "done", !.res = "notfound"])
       ELSE IF ReserveCheck(inv[calls[c].p], calls[c].q)
            THEN CallStep(c, [calls[c] EXCEPT !.pc = "write"])
            ELSE CallStep(c, [calls[c] EXCEPT !.pc = "done", !.res = "insufficient"])
    /\ UNCHANGED inv

(* reserveStock, lines 171-186: the guarded findOneAndUpdate; a null result
   is the error "Unable to reserve stock". *)
ReserveStockWrite(c) ==
    /\ calls[c].op = "reserveStock"
    /\ calls[c].pc = "write"
    /\ LET rec == inv[calls[c].p]
       IN IF ReserveGuard(rec, calls[c].q)
          THEN /\ inv' = [inv EXCEPT ![calls[c].p] = ReserveApply(rec, calls[c].q)]
               /\ CallStep(c, [calls[c] EXCEPT !.pc = "done", !.res = "ok"])
          ELSE /\ UNCHANGED inv
               /\ CallStep(c, [calls[c] EXCEPT !.pc = "done", !.res = "unable"])

InitReserve ==
    /\ inv = [p \in Products |-> [a |-> LedgerAvail, r |-> 0]]
    /\ orders = <<>>
    /\ hist = <<>>
    /\ pays = <<>>
    /\ cart = [u \in Users |-> << >>]
    /\ proc = [r \in Procs |-> Idle]
    /\ tx = [r \in Procs |-> EmptyTx]
    /\ budget = 0
    /\ calls = [c \in Callers |-> IdleCall]
    /\ audit = {}

NextReserve ==
    \E c \in Callers :
        \/ \E q \in 1..MaxCallQty : reserveStock(c, LedgerProduct, q)
        \/ ReserveStockRead(c)
        \/ ReserveStockWrite(c)

SpecReserve == InitReserve /\ [][NextReserve]_vars

-----------------------------------------------------------------------------
(* The whole ledger called directly (session = null) on one inventory
   record and on a product id without a record. *)

LedgerCallers == {1, 2}
LedgerQty == {1, 2, 4}
MaxLedgerStock == 10    \* largest availableStock of the ledger product

LedgerTargets == {LedgerProduct, NoRecord}

(* The call of one findOneAndUpdate: the filter matches an existing record
   that passes the guard, which is then updated; a null result is the error. *)
LedgerWrite(c, op, p, q, matches, newRec, failure) ==
    /\ calls[c].pc = "idle"
    /\ IF ~QuantityPositive(q)
       THEN /\ UNCHANGED inv
            /\ CallStep(c, [op |-> op, pc |-> "done", p |-> p, q |-> q, res |-> "quantity"])
       ELSE IF p \in DOMAIN inv /\ matches
       THEN /\ inv' = [inv EXCEPT ![p] = newRec]
            /\ CallStep(c, [op |-> op, pc |-> "done", p |-> p, q |-> q, res |-> "ok"])
       ELSE /\ UNCHANGED inv
            /\ CallStep(c, [op |-> op, pc |-> "done", p |-> p, q |-> q, res |-> failure])

(* releaseReservedStock, lines 192-210 *)
releaseReservedStock(c, p, q) ==
    LedgerWrite(c, "releaseReservedStock", p, q,
                p \in DOMAIN inv /\ ReleaseGuard(inv[p], q),
                IF p \in DOMAIN inv THEN ReleaseApply(inv[p], q) ELSE <<>>,
                "unable")

(* confirmReservation, lines 215-242 *)
confirmReservation(c, p, q) ==
    LedgerWrite(c, "confirmReservation", p, q,
                p \in DOMAIN inv /\ ConfirmGuard(inv[p], q),
                IF p \in DOMAIN inv THEN ConfirmApply(inv[p], q) ELSE <<>>,
                "unable")

(* incrementStock, lines 101-119, called directly *)
LedgerIncrementStock(c, p, q) ==
    /\ p \in DOMAIN inv => inv[p].a + q <= MaxLedgerStock
    /\ LedgerWrite(c, "incrementStock", p, q,
                   TRUE,
                   IF p \in DOMAIN inv THEN IncrementApply(inv[p], q) ELSE <<>>,
                   "notfound")

(* decrementStock, lines 124-151, called directly: the call, the findOne
   with its check, and the guarded findOneAndUpdate. *)
LedgerDecrementStock(c, p, q) ==
    /\ calls[c].pc = "idle"
    /\ IF QuantityPositive(q)
       THEN CallStep(c, [op |-> "decrementStock", pc |-> "read", p |-> p, q |-> q, res |-> "none"])
       ELSE CallStep(c, [op |-> "decrementStock", pc |-> "done", p |-> p, q |-> q,
                         res |-> "quantity"])
    /\ UNCHANGED inv

DecrementStockRead(c) ==
    /\ calls[c].op = "decrementStock"
    /\ calls[c].pc = "read"
    /\ IF calls[c].p \notin DOMAIN inv
       THEN CallStep(c, [calls[c] EXCEPT !.pc = "done", !.res = "notfound"])
       ELSE IF DecrementCheck(inv[calls[c].p], calls[c].q)
            THEN CallStep(c, [calls[c] EXCEPT !.pc = "write"])
            ELSE CallStep(c, [calls[c] EXCEPT !.pc = "done", !.res = "insufficient"])
    /\ UNCHANGED inv

DecrementStockWrite(c) ==
    /\ calls[c].op = "decrementStock"
    /\ calls[c].pc = "write"
    /\ LET rec == inv[calls[c].p]
       IN IF DecrementGuard(rec, calls[c].q)
          THEN /\ inv' = [inv EXCEPT ![calls[c].p] = DecrementApply(rec, calls[c].q)]
               /\ CallStep(c, [calls[c] EXCEPT !.pc = "done", !.res = "ok"])
          ELSE /\ UNCHANGED inv
               /\ CallStep(c, [calls[c] EXCEPT !.pc = "done", !.res = "insufficient"])

(* The caller has its result and may call again. *)
CallReturn(c) ==
    /\ calls[c].pc = "done"
    /\ CallStep(c, IdleCall)
    /\ UNCHANGED inv

(* The ledger product starts from any record with
   0 <= reservedStock <= availableStock. *)
InitLedger ==
    /\ \E a \in 0..MaxLedgerStock : \E r \in 0..a :
          inv = [p \in Products |-> IF p = LedgerProduct
                                    THEN [a |-> a, r |-> r]
                                    ELSE [a |-> LedgerAvail, r |-> 0]]
    /\ orders = <<>>
    /\ hist = <<>>
    /\ pays = <<>>
    /\ cart = [u \in Users |-> << >>]
    /\ proc = [r \in Procs |-> Idle]
    /\ tx = [r \in Procs |-> EmptyTx]
    /\ budget = 0
    /\ calls = [c \in Callers |-> IdleCall]
    /\ audit = {}

ReservationCalls(c) ==
    \/ \E p \in LedgerTargets, q \in LedgerQty : reserveStock(c, p, q)
    \/ ReserveStockRead(c)
    \/ ReserveStockWrite(c)
    \/ \E p \in LedgerTargets, q \in LedgerQty : releaseReservedStock(c, p, q)
    \/ \E p \in LedgerTargets, q \in LedgerQty : confirmReservation(c, p, q)
    \/ \E p \in LedgerTargets, q \in LedgerQty : LedgerIncrementStock(c, p, q)
    \/ CallReturn(c)

DecrementCalls(c) ==
    \/ \E p \in LedgerTargets, q \in LedgerQty : LedgerDecrementStock(c, p, q)
    \/ DecrementStockRead(c)
    \/ DecrementStockWrite(c)

(* reserveStock, releaseReservedStock, confirmReservation and incrementStock alone *)
NextReservations == \E c \in LedgerCallers : ReservationCalls(c)

SpecReservations == InitLedger /\ [][NextReservations]_vars

(* The five ledger operations *)
NextLedger == \E c \in LedgerCallers : ReservationCalls(c) \/ DecrementCalls(c)

SpecLedger == InitLedger /\ [][NextLedger]_vars

-----------------------------------------------------------------------------
(* Properties of the inventory ledger *)

(* C1: in every reachable state every inventory record has
   0 <= reservedStock <= availableStock, whatever operations ran, the
   seller's decrementStock and updateStock and processPayment included. *)
ReservedWithinAvailable ==
    \A p \in Products : 0 <= inv[p].r /\ inv[p].r <= inv[p].a

SuccessfulQty == SumOver({c \in Callers : calls[c].res = "ok"},
                         [c \in Callers |-> calls[c].q])

Resolved(c) == calls[c].pc = "done"

NoOversell ==
    /\ inv[LedgerProduct].r = SuccessfulQty
    /\ SuccessfulQty <= LedgerAvail
    /\ inv[LedgerProduct].r <= inv[LedgerProduct].a
    /\ \A c1, c2 \in Callers :
          (/\ c1 # c2
           /\ Resolved(c1) /\ Resolved(c2)
           /\ \A c \in Callers \ {c1, c2} : calls[c].pc = "idle"
           /\ calls[c1].q = calls[c2].q
           /\ calls[c1].q <= LedgerAvail
           /\ LedgerAvail < 2 * calls[c1].q)
          => /\ (calls[c1].res = "ok") # (calls[c2].res = "ok")
             /\ inv[LedgerProduct].r = calls[c1].q

FailureIsShortage ==
    \A c \in Callers :
        (Resolved(c)' /\ ~Resolved(c) /\ calls'[c].res # "ok")
        => /\ inv[LedgerProduct].a - inv[LedgerProduct].r < calls[c].q
           /\ inv' = inv

(* C2: concurrent reserveStock calls on one record never oversell: the
   quantities of the successful calls sum to at most the free stock F the
   record started with and reservedStock grew by exactly that sum; a call
   fails only when its quantity exceeds the free stock at the moment it is
   resolved, and leaves the record unchanged; reservedStock never exceeds
   availableStock; of two calls of one quantity q
   with q <= F < 2q (3 and 3 against 5) exactly one succeeds and
   reservedStock ends at q. *)
ConcurrentReserveNeverOversells == []NoOversell /\ [][FailureIsShortage]_vars

(* Two calls of 3 against 5 free units have both been resolved. *)
TwoCallsOfThreeResolved ==
    /\ LedgerAvail = 5
    /\ \E c1, c2 \in Callers :
          /\ c1 # c2
          /\ Resolved(c1) /\ calls[c1].q = 3 /\ calls[c1].res = "ok"
          /\ Resolved(c2) /\ calls[c2].q = 3 /\ calls[c2].res = "unable"
          /\ inv[LedgerProduct].r = 3

-----------------------------------------------------------------------------
(* Properties of checkout and of the status transitions *)

(* Request r takes a step. *)
Steps(r) == proc'[r] # proc[r]

(* Request r ends with a successful commitTransaction. *)
Commits(r) == proc[r].pc = "commit" /\ proc'[r].pc = "audit"

(* Request r ends, by a commit, an abort or a rejection. *)
Ends(r) == proc[r] # Idle /\ proc'[r] = Idle

CheckoutStepIsAtomic ==
    \A r \in Procs :
        (proc[r].op = "createOrdersFromCart" /\ Steps(r))
        => /\ ~Commits(r) => UNCHANGED <<inv, orders, hist, pays, cart>>
           /\ Ends(r) => tx'[r] = EmptyTx

(* C3: checkout is atomic: unless the transaction of createOrdersFromCart
   commits, no step of the call changes the stored orders, history rows,
   inventory records or carts, and when the call ends nothing it buffered is
   left to be applied: no order or history row of the call exists,
   reservedStock is what it was, the cart keeps its items. *)
CheckoutIsAtomic == [][CheckoutStepIsAtomic]_vars

(* A checkout fails on a later line after reserving an earlier one. *)
CheckoutFailsAfterReserving ==
    \E r \in Procs :
        /\ proc[r].op = "createOrdersFromCart"
        /\ proc[r].pc = "abort"
        /\ proc[r].i >= 2
        /\ DOMAIN tx[r].inv # {}
        /\ ~ReserveCheck(inv[CheckoutLine(r).p], CheckoutLine(r).q)
        /\ cart[proc[r].u] # << >>

PaidStepIsAtomic ==
    \A r \in Procs :
        (/\ proc[r].op \in {"updateOrderStatus", "markOrderPaid"}
         /\ proc[r].tgt = "PAID"
         /\ Steps(r))
        => /\ ~Commits(r) => UNCHANGED <<inv, orders, hist, pays>>
           /\ Ends(r) => tx'[r] = EmptyTx

(* C7: a transition to PAID whose confirmReservation fails for an item
   fails as a whole: unless its transaction commits, no step of the call
   changes the stored status, history rows, payments or inventory, so the
   confirmations made for earlier items are undone with the abort. *)
PaidTransitionIsAtomic == [][PaidStepIsAtomic]_vars

(* confirmReservation fails for the second item after the first was confirmed. *)
ConfirmFailsAfterConfirming ==
    \E r \in Procs :
        /\ proc[r].op = "updateOrderStatus"
        /\ proc[r].tgt = "PAID"
        /\ proc[r].pc = "abort"
        /\ proc[r].i = 2
        /\ proc[r].o \in DOMAIN tx[r].ord
        /\ orders[proc[r].o].items[1].p \in DOMAIN tx[r].inv
        /\ ~ConfirmGuard(inv[orders[proc[r].o].items[2].p], orders[proc[r].o].items[2].q)
        /\ orders[proc[r].o].status = "CREATED"

StatusOps == {"updateOrderStatus", "cancelOrder", "processOrder", "shipOrder", "deliverOrder"}

(* The allowed next statuses as the transition table is documented. *)
AllowedNext(s) ==
    CASE s = "CREATED"    -> {"PAID", "CANCELLED"}
      [] s = "PAID"       -> {"PROCESSING", "CANCELLED", "REFUNDED"}
      [] s = "PROCESSING" -> {"SHIPPED", "CANCELLED"}
      [] s = "SHIPPED"    -> {"DELIVERED"}
      [] s = "DELIVERED"  -> {"REFUNDED"}
      [] OTHER            -> {}

(* Request r has passed the validation of updateOrderStatus. *)
Validated(r) ==
    /\ proc[r].op \in StatusOps
    /\ proc[r].pc \in {"us_save", "confirm", "release", "commit", "abort", "conflict"}

OnlyAllowedPairsProceed ==
    \A r \in Procs : Validated(r) => proc[r].tgt \in AllowedNext(proc[r].prev)

(* The step of r in which updateOrderStatus reads the order and validates. *)
Validates(r) ==
    /\ Steps(r)
    /\ \/ proc[r].pc = "us_read"
       \/ proc[r].pc = "idle" /\ proc'[r].op = "updateOrderStatus"

ValidationFollowsTable ==
    \A r \in Procs :
        /\ Validates(r) =>
              LET cur == orders[proc'[r].o].status
                  tgt == proc'[r].tgt
              IN /\ UNCHANGED <<inv, orders, hist, pays, cart, tx>>
                 /\ IF tgt \in AllowedNext(cur)
                    THEN proc'[r].pc = "us_save"
                    ELSE /\ proc'[r].pc = "rejected"
                         /\ proc'[r].prev = cur
                         /\ proc'[r].tgt = tgt
        /\ (proc[r].pc = "rejected" /\ Steps(r))
              => UNCHANGED <<inv, orders, hist, pays, cart, tx>>
        /\ (proc[r].op \in StatusOps /\ Commits(r))
              => orders'[proc[r].o].status = proc[r].tgt

(* C4: the transition table is total and closed: for every pair of the
   seven statuses, updateOrderStatus called on an order it reads in status
   current proceeds, and can succeed, only if target is in the allowed set
   of current; for every other pair it throws an error naming both statuses
   and changes neither the order's status nor its history rows nor any
   inventory record. *)
TransitionTableIsClosed == []OnlyAllowedPairsProceed /\ [][ValidationFollowsTable]_vars

(* A delivered order, after its whole lifecycle, refuses to be cancelled. *)
DeliveredRefusesCancel ==
    \E r \in Procs :
        /\ proc[r].op = "updateOrderStatus"
        /\ proc[r].pc = "rejected"
        /\ proc[r].prev = "DELIVERED"
        /\ proc[r].tgt = "CANCELLED"
        /\ orders[proc[r].o].status = "DELIVERED"
        /\ hist[proc[r].o] = <<"CREATED", "PAID", "PROCESSING", "SHIPPED", "DELIVERED">>

(* The quantity of product p in order o. *)
QtyOf(o, p) ==
    LET its == orders[o].items
        idx == {n \in 1..Len(its) : its[n].p = p}
    IN SumOver(idx, [n \in idx |-> its[n].q])

ReleaseOnCommit ==
    \A r \in Procs :
        (/\ proc[r].op \in StatusOps
         /\ proc[r].tgt \in {"CANCELLED", "REFUNDED"}
         /\ Commits(r))
        => /\ proc[r].prev = "CREATED"
                => \A p \in Products :
                      /\ inv'[p].r = inv[p].r - QtyOf(proc[r].o, p)
                      /\ inv'[p].a = inv[p].a
           /\ proc[r].prev \in {"PAID", "PROCESSING", "DELIVERED"} => inv' = inv

(* C8: a committed transition to CANCELLED or REFUNDED releases stock only
   for a never-paid order: when the prior status is CREATED, reservedStock of
   each item's product decreases by exactly the item's quantity and
   availableStock is unchanged; when the prior status is PAID, PROCESSING or
   DELIVERED, every inventory record is left unchanged. *)
ReleaseOnlyForNeverPaid == [][ReleaseOnCommit]_vars

(* The cancellation of a never-paid order has released every item and is
   about to commit. *)
CancelOfCreatedReleased ==
    \E r \in Procs :
        /\ proc[r].op \in {"updateOrderStatus", "cancelOrder"}
        /\ proc[r].tgt = "CANCELLED"
        /\ proc[r].prev = "CREATED"
        /\ proc[r].pc = "commit"
        /\ \A n \in 1..Len(orders[proc[r].o].items) :
              LET it == orders[proc[r].o].items[n]
              IN /\ it.p \in DOMAIN tx[r].inv
                 /\ tx[r].inv[it.p].r = inv[it.p].r - it.q

-----------------------------------------------------------------------------
(* Properties of the order lifecycle under concurrency and of payment *)

TerminalStays ==
    \A o \in OrderIds :
        orders[o].status \in {"CANCELLED", "REFUNDED"}
            => orders'[o].status = orders[o].status

(* C5: CANCELLED and REFUNDED are terminal: once the persisted status of an
   order is CANCELLED or REFUNDED no step of any call changes it, calls that
   read the order before it became terminal included. *)
TerminalStatusIsFinal == [][TerminalStays]_vars

PaidStepSells ==
    \A o \in OrderIds :
        (orders[o].status = "CREATED" /\ orders'[o].status = "PAID")
            => \A p \in Products :
                  /\ inv[p].r >= QtyOf(o, p)
                  /\ inv[p].a >= QtyOf(o, p)
                  /\ inv'[p].a = inv[p].a - QtyOf(o, p)
                  /\ inv'[p].r = inv[p].r - QtyOf(o, p)

(* C6: every commit that changes the persisted status of an order from
   CREATED to PAID, by whichever path, reduces availableStock and
   reservedStock of each item's product by the item's quantity, and happens
   only when both counters cover that quantity. *)
PaymentIsSale == [][PaidStepSells]_vars

Quiescent == \A r \in Procs : proc[r] = Idle

ReservedOfCreated(p) ==
    LET os == {o \in OrderIds : orders[o].status = "CREATED"}
    IN SumOver(os, [o \in os |-> QtyOf(o, p)])

(* C9: without manual stock edits, whenever no call is in flight, each
   product's reservedStock equals the sum of that product's item quantities
   over the orders in status CREATED. *)
ReservedTiedToCreatedOrders ==
    Quiescent => \A p \in Products : inv[p].r = ReservedOfCreated(p)

PaidEffects(o) ==
    << \E k \in 1..Len(pays[o]) : pays[o][k] = "SUCCESS",
       orders[o].status = "PAID",
       \E n \in 1..Len(hist[o]) : hist[o][n] = "PAID",
       \A n \in 1..Len(orders[o].items) : inv[orders[o].items[n].p].r = 0 >>

(* C10: paying an order is all-or-nothing: whenever no call is in flight,
   the payment in status SUCCESS, the order status PAID, the PAID history row
   and the release of the order's reservation have all been applied or none
   has (one buyer, one order, no other writer of the inventory). *)
PaymentAllOrNothing ==
    Quiescent =>
        \A o \in OrderIds :
            \/ PaidEffects(o) = <<TRUE, TRUE, TRUE, TRUE>>
            \/ PaidEffects(o) = <<FALSE, FALSE, FALSE, FALSE>>

-----------------------------------------------------------------------------
(* Properties of concurrent transactions *)

PaidRows(o) == {n \in 1..Len(hist[o]) : hist[o][n] = "PAID"}

(* C11: repeated payment confirmation is harmless: however often, and by
   whichever of updateOrderStatus, markOrderPaid and processPayment, the
   transition of one order to PAID is invoked, at most one invocation
   appends a PAID history row (and changes the inventory counters). *)
AtMostOnePaidRow == \A o \in OrderIds : Cardinality(PaidRows(o)) <= 1

(* The units of p that open transactions have reserved and not yet committed. *)
PendingReserved(p) ==
    SumOver(Procs, [r \in Procs |->
                        IF p \in DOMAIN tx[r].inv THEN tx[r].inv[p].r - inv[p].r ELSE 0])

CheckoutLosesOnlyToShortage ==
    \A r \in Procs :
        (/\ proc[r].op = "createOrdersFromCart"
         /\ proc[r].pc = "co_rwrite"
         /\ proc'[r].pc = "conflict")
        => LET l == CheckoutLine(r)
           IN inv[l.p].a - inv[l.p].r - PendingReserved(l.p) < l.q

(* C12: concurrent checkouts that reserve the same product all go through
   as long as their quantities fit in the free stock: the reservation of a
   checkout is refused only when its quantity exceeds the free stock
   remaining, never merely because another checkout wrote the same
   inventory record at the same time. *)
ConcurrentCheckoutsShareStock == [][CheckoutLosesOnlyToShortage]_vars

ConflictNotSurfaced ==
    \A r \in Procs : (proc[r].pc = "conflict" /\ Steps(r)) => proc'[r] # Idle

(* C13: a checkout, payment confirmation or cancellation whose transaction
   hits a transient write conflict is executed again: the conflict of a
   first attempt is not returned to the caller. *)
TransientConflictIsRetried == [][ConflictNotSurfaced]_vars

-----------------------------------------------------------------------------
(* Properties of cancelOrder *)

(* The caller recorded in rec may cancel order o. *)
MayCancel(rec, o) == rec.role = "SUPER_ADMIN" \/ orders[o].user = rec.u

CancelGuarded ==
    \A r \in Procs :
        /\ (proc[r] = Idle /\ proc'[r].op = "cancelOrder")
              => LET o == proc'[r].o
                 IN /\ proc'[r].pc # "rejected"
                         <=> /\ orders[o].status \in {"CREATED", "PAID", "PROCESSING"}
                             /\ MayCancel(proc'[r], o)
                    /\ UNCHANGED <<inv, orders, hist, pays, cart, tx>>
        /\ (proc[r].op = "cancelOrder" /\ Steps(r))
              => IF Commits(r)
                 THEN /\ orders'[proc[r].o].status = "CANCELLED"
                      /\ proc[r].prev \in {"CREATED", "PAID", "PROCESSING"}
                      /\ MayCancel(proc[r], proc[r].o)
                 ELSE UNCHANGED <<inv, orders, hist, pays, cart>>

(* C14: cancelOrder goes on only if it reads the order in CREATED, PAID or
   PROCESSING and the caller is the order's buyer or a SUPER_ADMIN, and its
   commit leaves the order in CANCELLED; for an order it reads in SHIPPED,
   DELIVERED, CANCELLED or REFUNDED, or for any other caller, it is rejected,
   and every step of a cancelOrder other than its commit leaves the orders,
   their history rows and all inventory unchanged. *)
CancelOnlyWhenCancellable == [][CancelGuarded]_vars

(* A SUPER_ADMIN's cancellation of a PROCESSING order is about to commit
   while a stranger's cancellation of the same order has been rejected. *)
AdminCancelsStrangerRefused ==
    \E r1, r2 \in Procs :
        /\ proc[r1].op = "cancelOrder" /\ proc[r1].pc = "commit"
        /\ proc[r1].role = "SUPER_ADMIN" /\ proc[r1].prev = "PROCESSING"
        /\ proc[r2].op = "cancelOrder" /\ proc[r2].pc = "rejected"
        /\ proc[r2].role = "USER" /\ proc[r2].o = proc[r1].o
        /\ proc[r2].u # orders[proc[r2].o].user
        /\ orders[proc[r2].o].status = "PROCESSING"

-----------------------------------------------------------------------------
(* Properties of a successful checkout *)

CartStores(lines) == {StoreOf(lines[n].p) : n \in 1..Len(lines)}

LinesOfStore(lines, s) == SelectSeq(lines, LAMBDA l : StoreOf(l.p) = s)

(* The quantity of product p in the lines of a cart. *)
CartQty(lines, p) ==
    SumOver(1..Len(lines), [n \in 1..Len(lines) |-> IF lines[n].p = p THEN lines[n].q ELSE 0])

CheckoutCommitCreates ==
    \A r \in Procs :
        (proc[r].op = "createOrdersFromCart" /\ Commits(r) /\ cart[proc[r].u] # <<>>)
        => LET u == proc[r].u
               lines == cart[u]
               old == 1..Len(orders)
               new == (Len(orders) + 1)..Len(orders')
           IN /\ Len(orders') = Len(orders) + Cardinality(CartStores(lines))
              /\ DOMAIN hist' = DOMAIN orders'
              /\ \A s \in CartStores(lines) : \E o \in new : orders'[o].store = s
              /\ \A o \in new :
                     /\ orders'[o].user = u
                     /\ orders'[o].status = "CREATED"
                     /\ orders'[o].store \in CartStores(lines)
                     /\ orders'[o].items = LinesOfStore(lines, orders'[o].store)
                     /\ hist'[o] = <<"CREATED">>
              /\ \A o \in old : orders'[o] = orders[o] /\ hist'[o] = hist[o]
              /\ cart'[u] = <<>>
              /\ \A p \in Products :
                     /\ inv'[p].a = inv[p].a
                     /\ inv'[p].r = inv[p].r + CartQty(lines, p)

(* C15: the commit of a checkout of a cart whose lines span k distinct
   stores creates exactly k orders, one per store, each holding exactly that
   store's lines with their quantities, each in status CREATED with exactly
   one history row of status CREATED; after the commit the cart is empty and
   each line's product has reservedStock increased by exactly the line's
   quantity with availableStock unchanged. *)
CheckoutCreatesOneOrderPerStore == [][CheckoutCommitCreates]_vars

(* The checkout of a cart of three lines over two stores is about to commit. *)
TwoStoreCheckoutCommits ==
    \E r \in Procs :
        /\ proc[r].op = "createOrdersFromCart" /\ proc[r].pc = "commit"
        /\ Len(cart[proc[r].u]) = 3
        /\ Cardinality(CartStores(cart[proc[r].u])) = 2
        /\ Len(tx[r].newOrd) = 2

-----------------------------------------------------------------------------
(* Properties of the status history *)

LastRowIsCurrent ==
    \A o \in OrderIds : hist[o] # <<>> /\ hist[o][Len(hist[o])] = orders[o].status

HistoryAppendOnly ==
    \A o \in OrderIds :
        /\ o \in DOMAIN hist'
        /\ Len(hist'[o]) >= Len(hist[o])
        /\ SubSeq(hist'[o], 1, Len(hist[o])) = hist[o]
        /\ orders'[o].status # orders[o].status
              => hist'[o] = Append(hist[o], orders'[o].status)

(* C16: OrderStatusHistory is append-only and in step with the order: every
   committed change of an order's status appends exactly one row carrying the
   new status in the same commit, existing rows are never modified or
   removed, and in every committed state the most recently appended row of
   an order carries that order's current status. *)
HistoryInStepWithStatus == []LastRowIsCurrent /\ [][HistoryAppendOnly]_vars

-----------------------------------------------------------------------------
(* The pricing of one store group: the subtotal that groupCartByStore
   accumulates from the line totals of getCartWithDetails, and the tax,
   shipping fee and total that createOrdersFromCart computes from it. A line
   is a unit price in cents and a quantity; every amount is a Number. *)

MaxLines == 3
MaxLineQty == 2

LinePrices == {35, 477, 1640, 2883, 4000, 5000, 6000}

PricedLines == [price : LinePrices, q : 1..MaxLineQty]

PricedGroups ==
    UNION {[1..n -> PricedLines] : n \in 1..MaxLines}

IdlePricing ==
    [pc |-> "subtotal", i |-> 1, subtotal |-> DZero, tax |-> DZero,
     shippingFee |-> DZero, totalAmount |-> DZero]

PricingStep(rec) ==
    /\ calls' = rec
    /\ UNCHANGED <<inv, orders, hist, pays, cart, proc, tx, budget, audit>>

PricingLines == cart["u1"]

(* groupCartByStore, lines 340-342: store.subtotal += item.price.lineTotal *)
GroupSubtotal ==
    /\ calls.pc = "subtotal"
    /\ PricingStep(IF calls.i <= Len(PricingLines)
                   THEN [calls EXCEPT !.subtotal = DAdd(@, lineTotal(PricingLines[calls.i].price,
                                                                   PricingLines[calls.i].q)),
                                      !.i = @ + 1]
                   ELSE [calls EXCEPT !.pc = "tax"])

(* Line 82: tax = Math.round(subtotal * 0.1 * 100) / 100 *)
PricingTax ==
    /\ calls.pc = "tax"
    /\ PricingStep([calls EXCEPT
           !.tax = PriceTax(calls.subtotal),
           !.pc = "shippingFee"])

(* Line 83: shippingFee = subtotal >= 50 ? 0 : 5.99 *)
PricingShippingFee ==
    /\ calls.pc = "shippingFee"
    /\ PricingStep([calls EXCEPT
           !.shippingFee = PriceShippingFee(calls.subtotal),
           !.pc = "totalAmount"])

(* Line 84: totalAmount = Math.round((subtotal + tax + shippingFee) * 100) / 100 *)
PricingTotalAmount ==
    /\ calls.pc = "totalAmount"
    /\ PricingStep([calls EXCEPT
           !.totalAmount = PriceTotalAmount(calls.subtotal, calls.tax, calls.shippingFee),
           !.pc = "priced"])

InitPricing ==
    /\ inv = [p \in Products |-> [a |-> InitAvail, r |-> 0]]
    /\ orders = <<>>
    /\ hist = <<>>
    /\ pays = <<>>
    /\ proc = [r \in Procs |-> Idle]
    /\ tx = [r \in Procs |-> EmptyTx]
    /\ budget = 0
    /\ cart \in {[u \in Users |-> IF u = "u1" THEN g ELSE <<>>] : g \in PricedGroups}
    /\ calls = IdlePricing
    /\ audit = {}

NextPricing == GroupSubtotal \/ PricingTax \/ PricingShippingFee \/ PricingTotalAmount

SpecPricing == InitPricing /\ [][NextPricing]_vars

-----------------------------------------------------------------------------
(* Properties of the pricing *)

(* The subtotal of the group in integer cents. *)
GroupCents ==
    SumOver(1..Len(PricingLines),
            [n \in 1..Len(PricingLines) |-> PricingLines[n].price * PricingLines[n].q])

ShippingCents(s) == IF s >= 5000 THEN 0 ELSE 599

(* C19: for a store group with subtotal s, in integer cents, the created
   order has tax equal to 10% of s rounded to the nearest cent, shippingFee
   0 if s >= 50.00 and 5.99 otherwise (the boundary s = 50.00 ships free),
   and totalAmount = s + tax + shippingFee. *)
PricedAsSpecified ==
    calls.pc = "priced"
    => \E t \in 0..(GroupCents \div 10 + 1) :
           /\ 10 * t - GroupCents <= 5
           /\ GroupCents - 10 * t <= 5
           /\ calls.tax = Cents(t)
           /\ calls.shippingFee = Cents(ShippingCents(GroupCents))
           /\ calls.totalAmount = Cents(GroupCents + t + ShippingCents(GroupCents))

-----------------------------------------------------------------------------
(* Properties of the order document *)

OrderBodyKept ==
    \A o \in OrderIds :
        /\ o \in DOMAIN orders'
        /\ orders'[o].items = orders[o].items
        /\ orders'[o].pricing = orders[o].pricing
        /\ orders'[o].user = orders[o].user
        /\ orders'[o].store = orders[o].store

(* C17: after an order is created, no operation changes its items or its
   pricing (subtotal, tax, shippingFee, totalAmount), and no operation
   deletes an order: status transitions, cancellation and payment processing
   change only the order's status. *)
OrderBodyIsImmutable == [][OrderBodyKept]_vars

(* An order of 60.00 that processPayment marked PAID and its buyer then
   cancelled, with the pricing of its creation. *)
PaidThenCancelledKeepsPricing ==
    \E o \in OrderIds :
        /\ orders[o].status = "CANCELLED"
        /\ hist[o] = <<"CREATED", "PAID", "CANCELLED">>
        /\ \E k \in 1..Len(pays[o]) : pays[o][k] = "SUCCESS"
        /\ orders[o].items = << [p |-> "p1", q |-> 1], [p |-> "p2", q |-> 2] >>
        /\ orders[o].pricing = [subtotal |-> Cents(6000), tax |-> Cents(600),
                                shippingFee |-> DZero, totalAmount |-> Cents(6600)]

-----------------------------------------------------------------------------
(* Properties of audit logging *)

AuditedIsCommitted ==
    \A a \in audit :
        /\ a.o \in OrderIds
        /\ a.action = "ORDER_CREATE" => hist[a.o][1] = "CREATED"
        /\ a.action = "ORDER_STATUS_CHANGE"
              => \E n \in 2..Len(hist[a.o]) : hist[a.o][n] = a.new

AuditStepHarmless ==
    /\ audit' # audit => \E r \in Procs : proc[r].pc = "audit" /\ Steps(r)
    /\ \A r \in Procs :
          (proc[r].pc = "audit" /\ Steps(r))
          => /\ UNCHANGED <<inv, orders, hist, pays, cart, tx>>
             /\ proc'[r] = IF /\ proc[r].op = "createOrdersFromCart"
                              /\ proc[r].i < Len(proc[r].groups)
                           THEN [proc[r] EXCEPT !.i = @ + 1]
                           ELSE Idle

(* C18: audit logging never affects the core operation: createAuditLog
   never throws; for createOrdersFromCart and updateOrderStatus the committed
   orders, history rows and inventory counters and the way the call ends are
   the same whether AuditLog.create succeeds or fails; and an audit record is
   written only after the transaction it describes has committed. *)
AuditNeverAffectsOperation == []AuditedIsCommitted /\ [][AuditStepHarmless]_vars

(* A checkout and a transition to PAID have committed and returned while
   every AuditLog.create failed. *)
CommittedWithoutAuditRecords ==
    /\ Quiescent
    /\ audit = {}
    /\ \E o \in OrderIds : hist[o] = <<"CREATED", "PAID">> /\ orders[o].status = "PAID"

(* The units of product p in the orders that have a PAID row in their
   history. *)
EverPaid(o) == \E n \in 1..Len(hist[o]) : hist[o][n] = "PAID"

SoldThroughPaid(p) ==
    LET paid == {o \in OrderIds : EverPaid(o)}
    IN SumOver(paid, [o \in paid |-> QtyOf(o, p)])

(* C20: without manual stock edits, whenever no call is in flight, for each
   product availableStock plus the quantity of that product in the orders
   that have ever reached PAID equals the stock the product started with. *)
PaidUnitsLeaveTheShelf ==
    Quiescent => \A p \in Products : inv[p].a + SoldThroughPaid(p) = InitAvail

(* C21: for every order, the statuses of its history rows in append order
   start with CREATED, and each row's status is an allowed transition from
   the status of the row before it, under every interleaving of the
   status-changing operations. *)
HistoryFollowsTable ==
    \A o \in OrderIds :
        /\ Len(hist[o]) >= 1 => hist[o][1] = "CREATED"
        /\ \A n \in 1..(Len(hist[o]) - 1) : hist[o][n + 1] \in AllowedNext(hist[o][n])

OrdersOf(u) == {o \in OrderIds : orders[o].user = u}

(* C22: a cart is turned into orders at most once: however many
   createOrdersFromCart invocations read one user's cart, the user never has
   more orders than the cart has stores. *)
CartOrderedAtMostOnce ==
    \A u \in Users : Cardinality(OrdersOf(u)) <= Len(groupCartByStore(InitCart[u]))

-----------------------------------------------------------------------------
(* Properties of the ledger operations called directly *)

LedgerRecordValid ==
    0 <= inv[LedgerProduct].r /\ inv[LedgerProduct].r <= inv[LedgerProduct].a

(* Caller c's call is resolved by this step. *)
Resolves(c) == calls[c].pc # "done" /\ calls'[c].pc = "done"

FailedCallChangesNothing ==
    \A c \in LedgerCallers : (Resolves(c) /\ calls'[c].res # "ok") => inv' = inv

(* C23: under every interleaving of reserveStock, releaseReservedStock,
   confirmReservation and incrementStock calls with positive quantities,
   started from a record with 0 <= reservedStock <= availableStock, the
   record keeps 0 <= reservedStock <= availableStock, and a call that fails
   leaves the record unchanged. *)
ReservationCallsKeepRecordValid == []LedgerRecordValid /\ [][FailedCallChangesNothing]_vars

(* A confirmation and a reservation have both succeeded and the record is
   fully reserved. *)
ConfirmedAndReservedToTheLimit ==
    /\ calls[1].op = "confirmReservation" /\ calls[1].res = "ok"
    /\ calls[2].op = "reserveStock" /\ calls[2].res = "ok"
    /\ inv[LedgerProduct].r = inv[LedgerProduct].a
    /\ inv[LedgerProduct].a > 0

FreeStock(rec) == rec.a - rec.r

(* Caller c's reserveStock call on the ledger product takes a step. *)
ReserveStep(c) ==
    /\ calls'[c] # calls[c]
    /\ \/ calls[c].op = "reserveStock" /\ calls[c].pc \in {"read", "write"}
       \/ calls[c].pc = "idle" /\ calls'[c].op = "reserveStock"
    /\ calls'[c].p = LedgerProduct

ReserveStepLinearizes ==
    \A c \in LedgerCallers :
        ReserveStep(c) =>
            LET rec == inv[LedgerProduct]
                q == calls'[c].q
            IN CASE calls[c].pc = "idle" ->
                        inv' = inv /\ calls'[c].pc = "read"
                 [] calls[c].pc = "read" ->
                        /\ inv' = inv
                        /\ IF FreeStock(rec) >= q
                           THEN calls'[c].pc = "write"
                           ELSE calls'[c].pc = "done" /\ calls'[c].res = "insufficient"
                 [] calls[c].pc = "write" ->
                        /\ calls'[c].pc = "done"
                        /\ IF FreeStock(rec) >= q
                           THEN /\ calls'[c].res = "ok"
                                /\ inv' = [inv EXCEPT ![LedgerProduct] =
                                              [a |-> rec.a, r |-> rec.r + q]]
                           ELSE /\ calls'[c].res = "unable"
                                /\ inv' = inv

(* C24: under every interleaving with the other ledger operations on the
   product, a reserveStock call changes the record only at its guarded
   write, and then by reservedStock += qty; it succeeds only when
   availableStock - reservedStock >= qty at that write; it fails only when
   the free stock is below qty at its read or at its write, leaving the
   record unchanged. *)
ReserveIsOneAtomicStep == [][ReserveStepLinearizes]_vars

(* A reserveStock call passed its read and lost at its write. *)
ReserveLostAtWrite ==
    \E c \in LedgerCallers :
        /\ calls[c].op = "reserveStock"
        /\ calls[c].p = LedgerProduct
        /\ calls[c].res = "unable"

(* Caller c's call of the one-write operation op on the ledger product is
   made and resolved by this step. *)
OneWriteCall(c, op) ==
    /\ calls[c].pc = "idle"
    /\ calls'[c].op = op
    /\ calls'[c].p = LedgerProduct

ConfirmStep ==
    \A c \in LedgerCallers :
        OneWriteCall(c, "confirmReservation") =>
            LET rec == inv[LedgerProduct]
                q == calls'[c].q
            IN IF rec.r >= q /\ rec.a >= q
               THEN /\ calls'[c].res = "ok"
                    /\ inv' = [inv EXCEPT ![LedgerProduct] =
                                  [a |-> rec.a - q, r |-> rec.r - q]]
               ELSE /\ calls'[c].res = "unable"
                    /\ inv' = inv

(* C25: confirmReservation(p, q) succeeds exactly when reservedStock >= q
   and availableStock >= q hold at its write, and then decreases both
   availableStock and reservedStock by exactly q (10 and 4 with q = 4 give
   6 and 0); otherwise it fails and the record is unchanged. *)
ConfirmIsNetSale == [][ConfirmStep]_vars

(* The record was at availableStock 10, reservedStock 4 and a confirmation
   of 4 has succeeded on it. *)
ConfirmedFourOfTen ==
    /\ calls[1].op = "confirmReservation" /\ calls[1].q = 4 /\ calls[1].res = "ok"
    /\ calls[2] = IdleCall
    /\ inv[LedgerProduct] = [a |-> 6, r |-> 0]

(* Caller c's reserveStock call, on either target, takes a step. *)
ReserveCallStep(c) ==
    /\ calls'[c] # calls[c]
    /\ \/ calls[c].op = "reserveStock" /\ calls[c].pc \in {"read", "write"}
       \/ calls[c].pc = "idle" /\ calls'[c].op = "reserveStock"

ReserveAllOrNothing ==
    \A c \in LedgerCallers :
        ReserveCallStep(c) =>
            LET p == calls'[c].p
                q == calls'[c].q
            IN /\ (p \notin DOMAIN inv /\ calls[c].pc = "read")
                      => calls'[c].pc = "done" /\ calls'[c].res = "notfound"
               /\ IF calls'[c].pc = "done" /\ calls'[c].res = "ok"
                  THEN /\ p \in DOMAIN inv
                       /\ inv[p].a - inv[p].r >= q
                       /\ inv'[p].r = inv[p].r + q
                       /\ inv'[p].a = inv[p].a
                       /\ \A p2 \in Products \ {p} : inv'[p2] = inv[p2]
                  ELSE inv' = inv

(* C26: reserveStock(p, q) makes no partial reservation: either it raises
   reservedStock by exactly q and leaves availableStock as it is, which
   happens only when availableStock - reservedStock >= q, or it fails and
   leaves the record exactly as it was; for a product without an inventory
   record it fails as not found. *)
ReserveMakesNoPartialReservation == [][ReserveAllOrNothing]_vars

(* One reservation of 4 went through and one call found no record. *)
ReservedFourAndNotFound ==
    /\ calls[1].op = "reserveStock" /\ calls[1].q = 4 /\ calls[1].res = "ok"
    /\ calls[2].op = "reserveStock" /\ calls[2].p = NoRecord /\ calls[2].res = "notfound"

ReleaseStep ==
    \A c \in LedgerCallers :
        OneWriteCall(c, "releaseReservedStock") =>
            LET rec == inv[LedgerProduct]
                q == calls'[c].q
            IN /\ inv'[LedgerProduct].a = rec.a
               /\ IF rec.r >= q
                  THEN /\ calls'[c].res = "ok"
                       /\ inv'[LedgerProduct].r = rec.r - q
                  ELSE /\ calls'[c].res = "unable"
                       /\ inv' = inv

(* C27: releaseReservedStock(p, q) never changes availableStock: it succeeds
   exactly when reservedStock >= q at its write and then decreases
   reservedStock by exactly q; otherwise it fails and the record is
   unchanged. *)
ReleaseUndoesReservationOnly == [][ReleaseStep]_vars

(* One release of 2 went through and another release was refused. *)
ReleasedTwoAndRefused ==
    /\ calls[1].op = "releaseReservedStock" /\ calls[1].p = LedgerProduct
    /\ calls[1].q = 2 /\ calls[1].res = "ok"
    /\ calls[2].op = "releaseReservedStock" /\ calls[2].p = LedgerProduct
    /\ calls[2].res = "unable"

DecrementStep ==
    \A c \in LedgerCallers :
        (/\ calls[c].op = "decrementStock"
         /\ calls[c].p = LedgerProduct
         /\ calls'[c] # calls[c]
         /\ calls[c].pc \in {"read", "write"}) =>
            LET rec == inv[LedgerProduct]
                q == calls[c].q
            IN IF calls'[c].pc = "done" /\ calls'[c].res = "ok"
               THEN /\ calls[c].pc = "write"
                    /\ rec.a >= q
                    /\ inv' = [inv EXCEPT ![LedgerProduct] = [a |-> rec.a - q, r |-> rec.r]]
               ELSE /\ inv' = inv
                    /\ calls[c].pc = "write" => (calls'[c].pc = "done" /\ rec.a < q)

IncrementStep ==
    \A c \in LedgerCallers :
        OneWriteCall(c, "incrementStock") =>
            LET rec == inv[LedgerProduct]
                q == calls'[c].q
            IN /\ calls'[c].res = "ok"
               /\ inv' = [inv EXCEPT ![LedgerProduct] = [a |-> rec.a + q, r |-> rec.r]]

AvailableNeverNegative == inv[LedgerProduct].a >= 0

(* C28: decrementStock(p, q) succeeds only if availableStock >= q at its
   write and then lowers availableStock by exactly q, leaving reservedStock;
   otherwise it fails with the record unchanged; so availableStock is never
   negative under any interleaving of the ledger operations; and
   incrementStock(p, q) always adds exactly q to availableStock and leaves
   reservedStock. *)
DirectStockEditsAreExact ==
    []AvailableNeverNegative /\ [][DecrementStep /\ IncrementStep]_vars

(* Of two decrements one took the last units and the other was refused. *)
DecrementTookLastUnits ==
    /\ calls[1].op = "decrementStock" /\ calls[1].p = LedgerProduct /\ calls[1].res = "ok"
    /\ calls[2].op = "decrementStock" /\ calls[2].p = LedgerProduct
    /\ calls[2].pc = "done" /\ calls[2].res = "insufficient"
    /\ inv[LedgerProduct].a = 0

(* The record went from old to new by one of the ledger's guarded
   increments or decrements of some positive quantity. *)
GuardedChange(old, new) ==
    \E q \in 1..MaxStock :
        \/ ReserveGuard(old, q) /\ new = ReserveApply(old, q)
        \/ ReleaseGuard(old, q) /\ new = ReleaseApply(old, q)
        \/ ConfirmGuard(old, q) /\ new = ConfirmApply(old, q)
        \/ DecrementGuard(old, q) /\ new = DecrementApply(old, q)
        \/ new = IncrementApply(old, q)

StockWriteIsGuarded ==
    \A p \in Products : inv'[p] # inv[p] => GuardedChange(inv[p], inv'[p])

(* C29: every write to availableStock or reservedStock, by whichever
   operation (the seller's updateStock and the stock adjustment of payment
   processing included), is an increment or decrement of one record that
   passes its guard in the state it is applied to. *)
EveryStockWriteIsGuarded == [][StockWriteIsGuarded]_vars

(* Request r is a createOrdersFromCart call whose validation runs in this step. *)
ValidationStep(r) == proc[r] = Idle /\ proc'[r].op = "createOrdersFromCart"

ShortOfFreeStock(lines) ==
    \E n \in 1..Len(lines) : inv[lines[n].p].a - inv[lines[n].p].r < lines[n].q

ValidationRejectsShortLines ==
    \A r \in Procs :
        (ValidationStep(r) /\ ShortOfFreeStock(cart[proc'[r].u]))
        => /\ proc'[r].pc = "rejected"
           /\ UNCHANGED <<inv, orders, hist, cart, tx>>

(* C30: pre-checkout validation fails fast on stock: when a cart line asks
   for more than availableStock - reservedStock of its product at validation
   time, createOrdersFromCart is rejected by the validation step, before any
   transaction is opened and with no order, reservation or cart change. *)
ValidationFailsFastOnStock == [][ValidationRejectsShortLines]_vars

-----------------------------------------------------------------------------
(* Checkout and markOrderPaid alone, with a storage that never fails. *)

NextMarkPaid ==
    \E r \in Procs :
        \/ CheckoutSteps(r)
        \/ \E o \in OrderIds : markOrderPaid(r, o)
        \/ MarkPaidSave(r)
        \/ ConfirmItem(r)
        \/ MarkPaidHistory(r)
        \/ Commit(r)
        \/ AuditLogCreated(r)
        \/ Abort(r)
        \/ Return(r)

SpecMarkPaid == InitOrders /\ [][NextMarkPaid]_vars

(* Request r is a markOrderPaid call whose reads and writes so far went
   through: payment and order saved, every item confirmed. *)
MarkPaidReachedHistory(r) ==
    proc[r].op = "markOrderPaid" /\ proc[r].pc = "mp_hist"

MarkPaidGoesThrough ==
    \A r \in Procs :
        /\ (MarkPaidReachedHistory(r) /\ proc'[r] # proc[r]) => proc'[r].pc = "commit"
        /\ (proc[r] = Idle /\ proc'[r].op = "markOrderPaid" /\ proc'[r].pc = "rejected")
               => orders[proc'[r].o].status # "CREATED" /\ UNCHANGED <<inv, orders, hist, pays>>

(* C31: markOrderPaid on a CREATED order whose reservations are intact
   commits (order PAID, one SUCCESS payment, every item confirmed, one PAID
   history row): once it has saved the payment and the order and confirmed
   every item, its history row is written and the transaction commits; on an
   order in any other status it is refused with no change. *)
MarkOrderPaidCommits == [][MarkPaidGoesThrough]_vars

-----------------------------------------------------------------------------
(* Checkout, the payment service and cancellation, with a storage that
   never fails. *)

NextPayCancel ==
    \E r \in Procs :
        \/ CheckoutSteps(r)
        \/ \E o \in OrderIds : initiatePayment(r, o)
        \/ InitiatePaymentCreate(r)
        \/ \E o \in OrderIds : \E k \in 1..Len(pays[o]) : processPayment(r, o, k)
        \/ ProcessPaymentSave(r)
        \/ ProcessPaymentReadOrder(r)
        \/ ProcessPaymentSaveOrder(r)
        \/ ProcessPaymentHistory(r)
        \/ ProcessPaymentStock(r)
        \/ \E o \in OrderIds, u \in Users : cancelOrder(r, o, u, "USER")
        \/ UpdateRead(r)
        \/ UpdateSave(r)
        \/ ReleaseItem(r)
        \/ Commit(r)
        \/ AuditLogCreated(r)
        \/ Abort(r)
        \/ Return(r)

SpecPayCancel == InitOrders /\ [][NextPayCancel]_vars

(* C32: whenever processPayment has marked a payment SUCCESS and reported
   success, the payment's order is PAID: with initiatePayment, cancelOrder
   and processPayment on an order and no call in flight, no payment is
   SUCCESS while its order is CANCELLED or still CREATED. *)
SuccessMeansPaid ==
    Quiescent =>
        \A o \in OrderIds : \A k \in 1..Len(pays[o]) :
            pays[o][k] = "SUCCESS" => orders[o].status \notin {"CANCELLED", "CREATED"}

OpenPayments(o) == {k \in 1..Len(pays[o]) : pays[o][k] \in PAYMENT_OPEN}

(* C33: for each order there is at any time at most one Payment in status
   INITIATED or SUCCESS, also when initiatePayment is invoked concurrently
   for one order and when markOrderPaid is used next to the payment
   service. *)
AtMostOneOpenPayment == \A o \in OrderIds : Cardinality(OpenPayments(o)) <= 1

-----------------------------------------------------------------------------
(* The public operations of the happy path called one after another, in any
   order, each after the one before it has returned, with a storage that
   never fails. *)

HappyCalls(r) ==
    \/ \E u \in Users : createOrdersFromCart(r, u)
    \/ \E o \in OrderIds : initiatePayment(r, o)
    \/ \E o \in OrderIds : \E k \in 1..Len(pays[o]) : processPayment(r, o, k)
    \/ \E o \in OrderIds : processOrder(r, o)
    \/ \E o \in OrderIds : shipOrder(r, o)
    \/ \E o \in OrderIds : deliverOrder(r, o)

HappySteps(r) ==
    \/ CheckoutGroup(r)
    \/ CheckoutReserveRead(r)
    \/ CheckoutReserveWrite(r)
    \/ CheckoutCreate(r)
    \/ CheckoutClearCart(r)
    \/ InitiatePaymentCreate(r)
    \/ ProcessPaymentSave(r)
    \/ ProcessPaymentReadOrder(r)
    \/ ProcessPaymentSaveOrder(r)
    \/ ProcessPaymentHistory(r)
    \/ ProcessPaymentStock(r)
    \/ UpdateRead(r)
    \/ UpdateSave(r)
    \/ Commit(r)
    \/ AuditLogCreated(r)
    \/ Return(r)

NextHappy == \E r \in Procs : (Quiescent /\ HappyCalls(r)) \/ HappySteps(r)

SpecHappy == InitOrders /\ [][NextHappy]_vars

SellerOps == {"processOrder", "shipOrder", "deliverOrder"}

(* The status each seller operation starts from. *)
StartsFrom(op) ==
    CASE op = "processOrder" -> "PAID"
      [] op = "shipOrder"    -> "PROCESSING"
      [] op = "deliverOrder" -> "SHIPPED"

HappyStep ==
    \A r \in Procs :
        Steps(r) =>
            LET op == proc'[r].op
                o == proc'[r].o
            IN /\ proc'[r].pc \notin {"abort", "conflict"}
               /\ (proc[r].pc # "rejected" /\ proc'[r].pc = "rejected" /\ op \in SellerOps)
                      => /\ orders[o].status # StartsFrom(op)
                         /\ UNCHANGED <<inv, orders, hist, pays>>
               /\ (proc[r].op \in SellerOps /\ Commits(r))
                      => /\ orders[proc[r].o].status = StartsFrom(proc[r].op)
                         /\ orders'[proc[r].o].status = proc[r].tgt
                         /\ hist'[proc[r].o] = Append(hist[proc[r].o], proc[r].tgt)
               /\ (proc[r] = Idle /\ op = "initiatePayment" /\ orders[o].status = "CREATED"
                   /\ OpenPayments(o) = {})
                      => proc'[r].pc = "ip_create"
               /\ (proc[r].op = "processPayment" /\ proc[r].pc # "rejected" /\ proc'[r] = Idle)
                      => /\ pays'[proc[r].o][proc[r].k] = "SUCCESS"
                         /\ orders'[proc[r].o].status = "PAID"
                         /\ hist'[proc[r].o] = <<"CREATED", "PAID">>

(* C34: the happy path is executable through the public operations: called
   one after another after a checkout, initiatePayment, processPayment,
   processOrder, shipOrder and deliverOrder each succeed and leave the order
   PAID, PROCESSING, SHIPPED and DELIVERED; processOrder succeeds only from
   PAID, shipOrder only from PROCESSING, deliverOrder only from SHIPPED, and
   each is refused with the order unchanged otherwise. *)
HappyPathIsExecutable == [][HappyStep]_vars

(* The order has been paid through the payment service and delivered. *)
OrderDelivered ==
    /\ Quiescent
    /\ Len(orders) = 1
    /\ orders[1].status = "DELIVERED"
    /\ hist[1] = <<"CREATED", "PAID", "PROCESSING", "SHIPPED", "DELIVERED">>
    /\ pays[1] = <<"SUCCESS">>

FulfilmentStatuses == {"PROCESSING", "SHIPPED", "DELIVERED"}

FulfilmentCommitKeepsLedger ==
    \A r \in Procs :
        (/\ proc[r].op \in StatusOps
         /\ proc[r].tgt \in FulfilmentStatuses
         /\ Commits(r))
        => /\ inv' = inv
           /\ tx[r].inv = <<>>
           /\ orders'[proc[r].o].status = proc[r].tgt

(* C35: transitions to PROCESSING, SHIPPED and DELIVERED have no ledger side
   effect: a successful updateOrderStatus, processOrder, shipOrder or
   deliverOrder to one of them leaves availableStock and reservedStock of
   every inventory record unchanged. *)
FulfilmentHasNoLedgerEffect == [][FulfilmentCommitKeepsLedger]_vars

(* The order was sold by a confirmed reservation and then taken through to
   DELIVERED. *)
DeliveredAfterConfirmedSale ==
    /\ Quiescent
    /\ Len(orders) = 1
    /\ orders[1].status = "DELIVERED"
    /\ inv["p1"] = [a |-> InitAvail - 1, r |-> 0]
    /\ inv["p2"] = [a |-> InitAvail - 2, r |-> 0]

-----------------------------------------------------------------------------
(* utils/transaction.js: withTransaction and withTransactionRetry, run with
   a callback and a storage that may fail at any call. *)

MaxRetriesArg == 5         \* largest maxRetries passed to withTransactionRetry
DefaultMaxRetries == 3     \* maxRetries = 3, line 207

ErrorKinds == {"label", "code112", "other"}

NoError == [from |-> "none", kind |-> "none"]

(* Lines 216-218: errorLabels includes TransientTransactionError, or code 112. *)
isTransientAlways(error) == TRUE

isTransientError(error) == error.kind \in {"label", "code112"}

Min(a, b) == IF a <= b THEN a ELSE b

(* Line 225: Math.min(100 * Math.pow(2, attempt), 1000) *)
RetryDelay(attempt) == Min(100 * 2 ^ attempt, 1000)

(* Lines 187-194: after fn, the try block goes on to commitTransaction; a
   throw enters the catch block. *)
AfterFnAlwaysCommits(threw) == "commit"

AfterFn(threw) == IF threw THEN "abort" ELSE "commit"

TxnCall(op, maxRetries) ==
    [op |-> op, maxRetries |-> maxRetries, attempt |-> 1, pc |-> "call", runs |-> 0,
     txn |-> "none", fnThrew |-> FALSE, commitErr |-> "none",
     commits |-> 0, aborts |-> 0, ends |-> 0,
     err |-> NoError, delay |-> 0]

TxnStep(rec) ==
    /\ calls' = rec
    /\ UNCHANGED <<inv, orders, hist, pays, cart, proc, tx, budget, audit>>

(* Line 210: the for loop is entered when attempt <= maxRetries; line 231
   throws lastError otherwise. *)
RetryCall ==
    /\ calls.pc = "call"
    /\ TxnStep(IF calls.attempt <= calls.maxRetries
               THEN [calls EXCEPT !.pc = "start"]
               ELSE [calls EXCEPT !.pc = "threw"])

(* Lines 184-185: startSession and startTransaction. *)
StartSession ==
    /\ calls.pc = "start"
    /\ TxnStep([calls EXCEPT !.pc = "fn", !.runs = @ + 1, !.txn = "in_progress",
                             !.fnThrew = FALSE, !.commitErr = "none", !.err = NoError,
                             !.commits = 0, !.aborts = 0, !.ends = 0])

(* Line 188: await fn(session) returns or throws. *)
RunFn ==
    /\ calls.pc = "fn"
    /\ \/ TxnStep([calls EXCEPT !.pc = AfterFn(FALSE)])
       \/ \E k \in ErrorKinds :
             TxnStep([calls EXCEPT !.pc = AfterFn(TRUE), !.fnThrew = TRUE,
                                   !.err = [from |-> "fn", kind |-> k]])

(* Line 189: commitTransaction succeeds or throws; the driver counts the
   transaction as committed once the command was sent. *)
CommitTransaction ==
    /\ calls.pc = "commit"
    /\ \/ TxnStep([calls EXCEPT !.pc = "finally", !.commits = @ + 1, !.txn = "committed"])
       \/ \E k \in ErrorKinds :
             TxnStep([calls EXCEPT !.pc = "abort", !.commits = @ + 1, !.txn = "committed",
                                   !.commitErr = k,
                                   !.err = [from |-> "commit", kind |-> k]])

(* Lines 191-193: abortTransaction, then the error is thrown on. An abort of
   a transaction in progress does not throw (the driver ignores the errors
   of the abort command); after a commitTransaction the driver may refuse
   the abort with an error of its own, which then replaces the caught one. *)
AbortTransaction ==
    /\ calls.pc = "abort"
    /\ \/ TxnStep([calls EXCEPT !.pc = "finally", !.aborts = @ + 1,
                                !.txn = IF @ = "in_progress" THEN "aborted" ELSE @])
       \/ /\ calls.txn = "committed"
          /\ TxnStep([calls EXCEPT !.pc = "finally", !.aborts = @ + 1,
                                   !.err = [from |-> "abort", kind |-> "other"]])

(* Lines 194-196 and 212-227: endSession; then the result is returned, or
   the error reaches the caller: of withTransaction directly, or the catch
   of withTransactionRetry, which throws it on or waits and tries again. *)
EndSession ==
    /\ calls.pc = "finally"
    /\ TxnStep(IF calls.err = NoError
               THEN [calls EXCEPT !.ends = @ + 1, !.pc = "returned"]
               ELSE IF calls.op = "withTransaction"
               THEN [calls EXCEPT !.ends = @ + 1, !.pc = "threw"]
               ELSE IF ~isTransientError(calls.err) \/ calls.attempt = calls.maxRetries
               THEN [calls EXCEPT !.ends = @ + 1, !.pc = "threw"]
               ELSE [calls EXCEPT !.ends = @ + 1, !.pc = "wait",
                                  !.delay = RetryDelay(calls.attempt)])

(* Lines 226 and 210: the wait is over, attempt++. *)
RetryAfterDelay ==
    /\ calls.pc = "wait"
    /\ TxnStep([calls EXCEPT !.pc = "call", !.attempt = @ + 1])

InitTxn ==
    /\ inv = [p \in Products |-> [a |-> InitAvail, r |-> 0]]
    /\ orders = <<>>
    /\ hist = <<>>
    /\ pays = <<>>
    /\ cart = [u \in Users |-> << >>]
    /\ proc = [r \in Procs |-> Idle]
    /\ tx = [r \in Procs |-> EmptyTx]
    /\ budget = 0
    /\ audit = {}
    /\ \/ calls = [TxnCall("withTransaction", 1) EXCEPT !.pc = "start"]
       \/ \E n \in 0..MaxRetriesArg : calls = TxnCall("withTransactionRetry", n)

NextTxn ==
    \/ RetryCall
    \/ StartSession
    \/ RunFn
    \/ CommitTransaction
    \/ AbortTransaction
    \/ EndSession
    \/ RetryAfterDelay

(* Every call that can take a step takes it: the storage answers. *)
SpecTxn == InitTxn /\ [][NextTxn]_vars /\ WF_vars(NextTxn)

-----------------------------------------------------------------------------
(* Properties of the transaction helpers *)

(* The withTransaction call of this attempt has returned or thrown. *)
TxnLeft == calls.pc \in {"returned", "threw", "wait"} /\ calls.runs > 0

TxnPathsRight ==
    /\ calls.commits <= 1 /\ calls.aborts <= 1 /\ calls.ends <= 1
    /\ calls.commits = 1 => ~calls.fnThrew
    /\ TxnLeft =>
          /\ calls.ends = 1
          /\ calls.fnThrew => (calls.aborts = 1 /\ calls.commits = 0 /\ calls.err.from = "fn")
          /\ calls.commitErr # "none" => (calls.aborts = 1 /\ calls.err # NoError)
          /\ (~calls.fnThrew /\ calls.commitErr = "none")
                => (calls.commits = 1 /\ calls.aborts = 0 /\ calls.err = NoError)
          /\ calls.pc = "returned" <=> calls.err = NoError

CommitOnlyAfterFn ==
    calls'.commits > calls.commits => (calls.pc = "commit" /\ ~calls.fnThrew)

(* C36: in every call of withTransaction(fn), commitTransaction is attempted
   only if fn completed without throwing; if fn throws, abortTransaction is
   called, commitTransaction is not, and fn's error reaches the caller; if
   commitTransaction throws, abortTransaction is called and an error reaches
   the caller; endSession is called exactly once on every path. *)
WithTransactionPaths == []TxnPathsRight /\ [][CommitOnlyAfterFn]_vars

(* A withTransaction call whose commitTransaction threw has thrown. *)
CommitThrewAndAborted ==
    /\ calls.op = "withTransaction"
    /\ calls.pc = "threw"
    /\ calls.commitErr # "none"
    /\ calls.aborts = 1 /\ calls.ends = 1

TxnDone == calls.pc \in {"returned", "threw"}

(* The wait after attempt k, in milliseconds. *)
WaitAfter(k) ==
    CASE k = 1 -> 200
      [] k = 2 -> 400
      [] k = 3 -> 800
      [] OTHER -> 1000

Transient(error) == error.kind = "label" \/ error.kind = "code112"

RetryBounded ==
    calls.op = "withTransactionRetry" =>
        /\ calls.runs <= calls.maxRetries
        /\ calls.pc = "wait" => /\ Transient(calls.err)
                                /\ calls.attempt < calls.maxRetries
                                /\ calls.delay = WaitAfter(calls.attempt)
        /\ calls.pc = "returned" => calls.err = NoError
        /\ (calls.pc = "threw" /\ calls.runs > 0)
              => /\ calls.err # NoError
                 /\ ~Transient(calls.err) \/ calls.runs = calls.maxRetries

RetryStep ==
    /\ TxnDone => calls' = calls
    /\ (calls.op = "withTransactionRetry" /\ calls'.runs > calls.runs /\ calls.runs > 0)
          => Transient(calls.err)

(* C37: withTransactionRetry(fn, maxRetries) always terminates: it runs the
   transaction at most maxRetries times, runs it again only after a failure
   with the TransientTransactionError label or code 112, stops at the first
   success or at the first other failure, throws the last error after the
   last attempt, and waits min(100 * 2^k, 1000) ms after attempt k. *)
RetryTerminates == <>TxnDone /\ []RetryBounded /\ [][RetryStep]_vars

(* With the default maxRetries all three attempts failed transiently, and
   the last error was thrown. *)
ThreeAttemptsThenThrown ==
    /\ calls.op = "withTransactionRetry"
    /\ calls.maxRetries = DefaultMaxRetries
    /\ calls.runs = 3
    /\ calls.pc = "threw"
    /\ calls.err.kind = "code112"
    /\ calls.delay = 400

-----------------------------------------------------------------------------
(* One order taken through the transition table: updateOrderStatus called
   with any target, each call after the one before it has returned, with a
   storage that never fails. *)

MaxWalkOps == 8     \* operations started in a run of SpecWalk

WalkCalls(r) ==
    \/ \E u \in Users : createOrdersFromCart(r, u)
    \/ \E o \in OrderIds, s \in ORDER_STATUS_VALUES : updateOrderStatus(r, o, s)

WalkSteps(r) ==
    \/ CheckoutGroup(r)
    \/ CheckoutReserveRead(r)
    \/ CheckoutReserveWrite(r)
    \/ CheckoutCreate(r)
    \/ CheckoutClearCart(r)
    \/ UpdateSave(r)
    \/ ConfirmItem(r)
    \/ ReleaseItem(r)
    \/ Commit(r)
    \/ AuditLogCreated(r)
    \/ Return(r)

InitWalk == InitStore /\ cart = SingleCart /\ budget = MaxWalkOps

NextWalk == \E r \in Procs : (Quiescent /\ WalkCalls(r)) \/ WalkSteps(r)

SpecWalk == InitWalk /\ [][NextWalk]_vars

(* The statuses reachable from the statuses S in at most n further
   transitions of the table. *)
RECURSIVE Successors(_, _)
Successors(S, n) ==
    IF n = 0 THEN {}
    ELSE LET T == UNION {ORDER_STATUS_TRANSITIONS[s] : s \in S}
         IN T \cup Successors(T, n - 1)

ReachableFrom(s) == Successors({s}, Cardinality(ORDER_STATUS_VALUES))

TerminalStatuses == {"CANCELLED", "REFUNDED"}

WalkIsAPath ==
    /\ \A s \in ORDER_STATUS_VALUES :
          /\ s \notin ReachableFrom(s)
          /\ ORDER_STATUS_TRANSITIONS[s] = {} <=> s \in TerminalStatuses
    /\ \A o \in OrderIds :
          /\ Len(hist[o]) <= 6
          /\ \A m, n \in 1..Len(hist[o]) : m # n => hist[o][m] # hist[o][n]
          /\ Quiescent => orders[o].status = hist[o][Len(hist[o])]

(* C38: the transition table is acyclic: no status is reachable from itself,
   so in a sequential run an order's status changes at most 5 times (six
   history rows, the longest path being CREATED, PAID, PROCESSING, SHIPPED,
   DELIVERED, REFUNDED) and never returns to a status it had, and the only
   statuses without a next status are CANCELLED and REFUNDED. *)
TransitionTableIsAcyclic == WalkIsAPath

(* The order has gone the longest path of the table. *)
LongestPathWalked ==
    /\ Quiescent
    /\ Len(orders) = 1
    /\ hist[1] = <<"CREATED", "PAID", "PROCESSING", "SHIPPED", "DELIVERED", "REFUNDED">>
    /\ budget > 0

-----------------------------------------------------------------------------
(* The quantity check of the ledger operations *)

CallQuantities == {-1, 0, 1, 2}

QuantityCalls(c) ==
    \/ \E p \in LedgerTargets, q \in CallQuantities : reserveStock(c, p, q)
    \/ \E p \in LedgerTargets, q \in CallQuantities : releaseReservedStock(c, p, q)
    \/ \E p \in LedgerTargets, q \in CallQuantities : confirmReservation(c, p, q)
    \/ \E p \in LedgerTargets, q \in CallQuantities : LedgerIncrementStock(c, p, q)
    \/ \E p \in LedgerTargets, q \in CallQuantities : LedgerDecrementStock(c, p, q)

QuantitySteps(c) ==
    \/ ReserveStockRead(c)
    \/ ReserveStockWrite(c)
    \/ DecrementStockRead(c)
    \/ DecrementStockWrite(c)
    \/ CallReturn(c)

(* The five ledger operations called with any quantity, positive or not *)
NextQuantity == \E c \in LedgerCallers : QuantityCalls(c) \/ QuantitySteps(c)

SpecQuantity == InitLedger /\ [][NextQuantity]_vars

LedgerOps == {"incrementStock", "decrementStock", "reserveStock",
              "releaseReservedStock", "confirmReservation"}

(* A call with a quantity that is not positive is made. *)
BadQuantityCall(c) ==
    /\ calls[c].pc = "idle"
    /\ calls'[c].pc # "idle"
    /\ calls'[c].q <= 0

BadQuantityFailsAtOnce ==
    \A c \in LedgerCallers :
        BadQuantityCall(c) =>
            /\ calls'[c].op \in LedgerOps
            /\ calls'[c].pc = "done"
            /\ calls'[c].res = "quantity"
            /\ inv' = inv

(* No call with a quantity that is not positive is at its read or its write. *)
BadQuantityNeverReadsOrWrites ==
    \A c \in LedgerCallers :
        calls[c].pc # "idle" /\ calls[c].q <= 0 =>
            calls[c].pc = "done" /\ calls[c].res = "quantity"

(* C39: each of incrementStock, decrementStock, reserveStock,
   releaseReservedStock and confirmReservation, called with quantity <= 0,
   fails with 'Quantity must be positive' in the step of the call, before
   any read or write, and leaves every inventory record unchanged. *)
NonPositiveQuantityRejected ==
    []BadQuantityNeverReadsOrWrites /\ [][BadQuantityFailsAtOnce]_vars

(* A confirmation of zero units and a decrement of minus one unit were both
   refused for the quantity, on a record with stock reserved. *)
ZeroAndNegativeRefused ==
    /\ calls[1].op = "confirmReservation" /\ calls[1].q = 0
    /\ calls[1].res = "quantity"
    /\ calls[2].op = "decrementStock" /\ calls[2].q = -1
    /\ calls[2].res = "quantity"
    /\ inv[LedgerProduct].r > 0

=============================================================================
